---- MODULE Spec2Model ----
(***************************************************************************)
(* A model of the multiresolution strain-minimisation core of elastik      *)
(* (src/src/create_map_projection.py): node and cell enumeration, the      *)
(* skeleton builder with its neighbour walks, and the energy functions.    *)
(*                                                                         *)
(* Arrays are functions on 0..n-1, as in Python.  Floating-point weights   *)
(* are modelled as exact rationals <<numerator, denominator>>.             *)
(***************************************************************************)
EXTENDS Integers, Sequences, FiniteSets, TLC

VARIABLES
    component,            \* which function of the program this behaviour runs
    pc,                   \* position inside that function
    \* ---- mesh_skeleton ----
    lookup_table,         \* [sections, rows, cols, at]: (h,i,j) -> node index or -1
    factor,               \* the coarsening factor
    sec2,                 \* per row, twice 1/cos(latitude) of the row
    east_neibor, west_neibor, north_neibor, south_neibor,
    has_defined_neibors,  \* n_full + 1 booleans, the extra one is False
    is_defined,
    reindex,
    walk,                 \* which of the six follow_graph calls is running
    state, distance_traveld, arrived,   \* follow_graph's locals
    reference,            \* walk name -> the state array follow_graph returned
    distance,             \* walk name -> the distance array follow_graph returned
    defining_indices, defining_weits,
    reduction, restoration,
    \* ---- enumerate_nodes, enumerate_cells (create_map_projection lines 474-477) ----
    mesh,                 \* [sections, rows, cols, at]: (h,i,j) -> point, maybe nan
    unique_rows,          \* np.unique's sorted rows
    node_positions,
    node_indices,         \* (h,i,j) -> node index or -1
    values, scales,       \* per section, the raster passed in, then its resampling
    cell_definitions, cell_weights, cell_scales,
    \* ---- the objective functions (create_map_projection lines 502-533) ----
    trace, antitrace,     \* per cell, the two square roots of compute_principal_strains
    strain_a, strain_b,   \* per cell, the principal strains a and b
    weights,              \* per cell, its weight in the sums
    energy,               \* the value the objective function returned
    dPhi, dLambda,        \* per row, the spacing of the rows and of the nodes in the row
    \* ---- the driver (create_map_projection lines 474-588) ----
    caller,               \* the function that called the running one, or "none"
    latitudes,            \* per row, twice 1/cos of the row's latitude
    progression,          \* the factors of the levels, a list
    transformations,      \* the (reduce, restore) pairs, a list
    level,                \* how many list entries the running loop has finished
    history,              \* the loop steps and minimizer calls made so far, a list
    saved                 \* what save_mesh was given

skel_vars == <<lookup_table, factor, sec2, east_neibor, west_neibor, north_neibor,
               south_neibor, has_defined_neibors, is_defined, reindex, walk, state,
               distance_traveld, arrived, reference, distance, defining_indices,
               defining_weits, reduction, restoration>>

enum_vars == <<mesh, unique_rows, node_positions, node_indices, values, scales,
               cell_definitions, cell_weights, cell_scales>>

energy_vars == <<trace, antitrace, strain_a, strain_b, weights, energy, dPhi, dLambda>>

driver_vars == <<caller, latitudes, progression, transformations, level, history, saved>>

outside_skeleton == <<enum_vars, energy_vars, driver_vars>>

outside_enumerate == <<skel_vars, energy_vars, driver_vars>>

outside_energy == <<skel_vars, enum_vars, driver_vars>>

vars == <<component, pc, skel_vars, enum_vars, energy_vars, driver_vars>>

-----------------------------------------------------------------------------
(* Bounds of the explored inputs *)

GridRows == 3
GridCols == 3
MaxAbsent == 1
MaxFactor == 2
MaxSec2 == 3
MaxHops == 6
MeshSections == 2
MeshRows == 2
MeshCols == 2
MeshAbsent == 1
MaxExtra == 1
MaxCells == 2
MaxStrain == 2
MaxWeight == 2
MaxSpacing == 2
MaxScale == 2
MaxRows == 20

-----------------------------------------------------------------------------
(* Python and numpy primitives *)

Range(n) == 0 .. (n - 1)

Size(arr) == Cardinality(DOMAIN arr)

\* arr[k] with numpy's wrap-around of negative indices
PyIndex(arr, k) == IF k < 0 THEN arr[Size(arr) + k] ELSE arr[k]

Min2(a, b) == IF a <= b THEN a ELSE b

SetMax(S) == CHOOSE m \in S : \A x \in S : x <= m

\* int(round(num/2)): Python rounds halves to the even neighbour
RoundHalfEven(num) ==
    LET q == num \div 2
    IN  IF num % 2 = 0 THEN q
        ELSE IF q % 2 = 0 THEN q ELSE q + 1

\* np.cumsum of a boolean array
Cumsum(b, k) == Cardinality({m \in DOMAIN b : m <= k /\ b[m]})

-----------------------------------------------------------------------------
(* Exact rationals <<n, d>> with d > 0, standing for the float weights *)

RECURSIVE Gcd(_, _)
Gcd(a, b) == IF b = 0 THEN a ELSE Gcd(b, a % b)

Abs(a) == IF a < 0 THEN -a ELSE a

Rat(n, d) ==
    LET g == Gcd(Abs(n), d)
    IN  IF n = 0 THEN <<0, 1>> ELSE <<n \div g, d \div g>>

RInt(n) == <<n, 1>>
RAdd(x, y) == Rat(x[1] * y[2] + y[1] * x[2], x[2] * y[2])
RSub(x, y) == Rat(x[1] * y[2] - y[1] * x[2], x[2] * y[2])
RMul(x, y) == Rat(x[1] * y[1], x[2] * y[2])
RLeq(x, y) == x[1] * y[2] <= y[1] * x[2]
RLess(x, y) == x[1] * y[2] < y[1] * x[2]
RDiv(x, y) == IF y[1] > 0 THEN Rat(x[1] * y[2], x[2] * y[1])
              ELSE Rat(-(x[1] * y[2]), x[2] * (-y[1]))

-----------------------------------------------------------------------------
(* Lookup tables given to mesh_skeleton *)

Positions(H, R, C) == Range(H) \X Range(R) \X Range(C)

\* the place of (h,i,j) in the scan order of the nested for loops
ScanOrder(tbl, p) == (p[1] * tbl.rows + p[2]) * tbl.cols + p[3]

\* a single-section R x C grid whose entries in `absent` are -1 and whose other
\* entries are numbered densely in row-major order
MaskedGrid(R, C, absent) ==
    [sections |-> 1, rows |-> R, cols |-> C,
     at |-> [p \in Positions(1, R, C) |->
                IF p \in absent THEN -1
                ELSE Cardinality({q \in Positions(1, R, C) \ absent :
                                     q[2] * C + q[3] < p[2] * C + p[3]})]]

MaskedGrids ==
    {MaskedGrid(GridRows, GridCols, absent) :
        absent \in {a \in SUBSET Positions(1, GridRows, GridCols) :
                       Cardinality(a) <= MaxAbsent}}

\* the fully defined single-section 5 x 5 grid, 25 distinct node indices
FullGrid5 == MaskedGrid(5, 5, {})

\* two sections of one column and four rows; section 0 holds nodes 0 and 1 in
\* its two middle rows and section 1 holds the pair `mid` there (the same nodes,
\* in the same or the opposite order, or one of them twice); each of the four end
\* entries is absent or a node of its own
SharedColumn(ends, mid) ==
    LET idx(k) == IF k \in ends
                  THEN 2 + Cardinality({m \in ends : m < k})
                  ELSE -1
    IN  [sections |-> 2, rows |-> 4, cols |-> 1,
         at |-> [p \in Positions(2, 4, 1) |->
                    CASE p[2] = 0 -> idx(2 * p[1])
                      [] p[2] = 3 -> idx(2 * p[1] + 1)
                      [] p[1] = 0 -> p[2] - 1
                      [] OTHER    -> mid[p[2]]]]

SharedColumns ==
    {SharedColumn(ends, mid) : ends \in SUBSET Range(4), mid \in Range(2) \X Range(2)}

\* the isolated two-node loop: north and south of node 0 are node 1 and back
TwoNodeLoop == SharedColumn({}, <<1, 0>>)

\* the single-section grid whose last row is absent
LastRowAbsent ==
    MaskedGrid(GridRows, GridCols, {<<0, GridRows - 1, j>> : j \in Range(GridCols)})

Tables == MaskedGrids \cup SharedColumns \cup {FullGrid5, LastRowAbsent}

\* per-row values of 2/cos(latitude): one value at the first and last row, a
\* smaller or equal one in between
Sec2Profiles(R) ==
    {[i \in Range(R) |-> IF i = 0 \/ i = R - 1 THEN pi[1] ELSE pi[2]] :
        pi \in {q \in (2 .. MaxSec2) \X (2 .. MaxSec2) : q[2] <= q[1]}}

-----------------------------------------------------------------------------
(* mesh_skeleton: the connection graphs *)

TablePositions(tbl) == Positions(tbl.sections, tbl.rows, tbl.cols)

NFull(tbl) == SetMax({tbl.at[p] : p \in TablePositions(tbl)}) + 1

\* One neighbour array.  The scan assigns neibor[table[h,i,j]] at every position
\* whose neighbour at offset (di, dj) is inside the table and not -1; the last
\* assignment in scan order stays.
NeiborArray(tbl, di, dj) ==
    LET inside(p) == /\ p[2] + di \in Range(tbl.rows)
                     /\ p[3] + dj \in Range(tbl.cols)
        beside(p) == <<p[1], p[2] + di, p[3] + dj>>
        writers(x) == {p \in TablePositions(tbl) :
                          /\ tbl.at[p] = x
                          /\ inside(p)
                          /\ tbl.at[beside(p)] # -1}
        last(x) == CHOOSE p \in writers(x) :
                       \A q \in writers(x) : ScanOrder(tbl, q) <= ScanOrder(tbl, p)
    IN  [x \in Range(NFull(tbl)) |->
            IF writers(x) = {} THEN -1 ELSE tbl.at[beside(last(x))]]

-----------------------------------------------------------------------------
(* mesh_skeleton: which nodes are defined independently *)

EastWestFactor(f, s2) == RoundHalfEven(f * s2)

\* ImportantRow that counts the distance to the first row only
ImportantRowFromSouth(tbl, f, i) == i % f = 0

\* ImportantRow with the distance to the far pole counted from the array size
\* instead of from the last index
ImportantRowFromSize(tbl, f, i) == Min2(i, tbl.rows - i) % f = 0

ImportantRow(tbl, f, i) == Min2(i, tbl.rows - 1 - i) % f = 0

ImportantCol(f, s2, j) == j % EastWestFactor(f, s2) = 0

\* HasDefinedNeibors without line 226: only the nodes of the anchor rows
HasDefinedNeiborsRowsOnly(tbl, f, north, south) ==
    [x \in Range(NFull(tbl) + 1) |->
        /\ x < NFull(tbl)
        /\ \E p \in TablePositions(tbl) : tbl.at[p] = x /\ ImportantRow(tbl, f, p[2])]

\* has_defined_neibors after line 226, with its extra False at index n_full
HasDefinedNeibors(tbl, f, north, south) ==
    [x \in Range(NFull(tbl) + 1) |->
        /\ x < NFull(tbl)
        /\ \/ \E p \in TablePositions(tbl) :
                  tbl.at[p] = x /\ ImportantRow(tbl, f, p[2])
           \/ north[x] = -1
           \/ south[x] = -1]

\* IsDefined without line 227: only the column anchors of the key rows
IsDefinedAnchorsOnly(tbl, f, s2, hdn, east, west) ==
    [x \in Range(NFull(tbl)) |->
        /\ \E p \in TablePositions(tbl) :
               tbl.at[p] = x /\ ImportantCol(f, s2[p[2]], p[3])
        /\ hdn[x]]

\* IsDefined without line 228: a column anchor stays a key outside the anchor rows
IsDefinedUnmasked(tbl, f, s2, hdn, east, west) ==
    [x \in Range(NFull(tbl)) |->
        \/ \E p \in TablePositions(tbl) :
               tbl.at[p] = x /\ ImportantCol(f, s2[p[2]], p[3])
        \/ ~PyIndex(hdn, east[x])
        \/ ~PyIndex(hdn, west[x])]

\* is_defined after line 228
IsDefined(tbl, f, s2, hdn, east, west) ==
    [x \in Range(NFull(tbl)) |->
        /\ \/ \E p \in TablePositions(tbl) :
                  tbl.at[p] = x /\ ImportantCol(f, s2[p[2]], p[3])
           \/ ~PyIndex(hdn, east[x])
           \/ ~PyIndex(hdn, west[x])
        /\ hdn[x]]

\* lines 213-224: the two arrays after the marking loops; an entry is True when
\* the loops or-ed a True into it at some position that holds the node
AnchorMarks(tbl, f, s2) ==
    [has_defined_neibors |->
         [x \in Range(NFull(tbl) + 1) |->
             \E p \in TablePositions(tbl) : tbl.at[p] = x /\ ImportantRow(tbl, f, p[2])],
     is_defined |->
         [x \in Range(NFull(tbl)) |->
             \E p \in TablePositions(tbl) :
                 tbl.at[p] = x /\ ImportantCol(f, s2[p[2]], p[3])]]

Reindex(defined) ==
    [x \in DOMAIN defined |-> IF defined[x] THEN Cumsum(defined, x) - 1 ELSE -1]


-----------------------------------------------------------------------------
(* follow_graph, one loop iteration per step *)

Walks == <<"n", "ne", "nw", "s", "se", "sw">>

WalkNames == {Walks[k] : k \in 1 .. 6}

NoArrays == [w \in WalkNames |-> <<>>]

Progression(w) ==
    CASE w = "n" -> north_neibor
      [] w = "s" -> south_neibor
      [] w \in {"ne", "se"} -> east_neibor
      [] OTHER -> west_neibor

\* every walk stopping at the nodes of the key rows
UntilKeyRow(w) == has_defined_neibors

Until(w) == IF w \in {"n", "s"} THEN has_defined_neibors ELSE is_defined

\* lines 60-62: the locals of a call follow_graph(progression, frum, until)
EnterFollowGraph(w, frum, until) ==
    /\ walk' = w
    /\ state' = frum
    /\ distance_traveld' = [k \in DOMAIN frum |-> 0]
    /\ arrived' = [k \in DOMAIN frum |-> PyIndex(until, frum[k])]

\* line 63: np.any(~arrived)
AnyNotArrived == {k \in DOMAIN state : ~arrived[k]} # {}

\* line 64: some walker that has not arrived stands on a fixed point
AboutToLoop ==
    {k \in DOMAIN state :
        ~arrived[k] /\ PyIndex(Progression(walk), state[k]) = state[k]} # {}

-----------------------------------------------------------------------------
(* get_interpolation_weits, per element *)

\* WeitA weighting a reference by its own distance instead of the opposite one
WeitAOwnDistance(distance_a, distance_b) ==
    IF distance_a + distance_b # 0
    THEN Rat(distance_a, distance_a + distance_b)
    ELSE RInt(1)

\* WeitA weighting both references equally whatever their distances
WeitAHalf(distance_a, distance_b) ==
    IF distance_a + distance_b # 0
    THEN Rat(1, 2)
    ELSE RInt(1)

WeitA(distance_a, distance_b) ==
    IF distance_a + distance_b # 0
    THEN Rat(distance_b, distance_a + distance_b)
    ELSE RInt(1)

WeitB(distance_a, distance_b) == RSub(RInt(1), WeitA(distance_a, distance_b))

-----------------------------------------------------------------------------
(* The operators of sparse.py (DenseSparseArray), as section 4.2 describes them *)

\* identity(n)[mask, :]: row k selects the k-th node whose mask is True
IdentityRows(mask) ==
    LET m == Cardinality({x \in DOMAIN mask : mask[x]})
    IN  [k \in Range(m) |-> CHOOSE x \in DOMAIN mask : mask[x] /\ Cumsum(mask, x) = k + 1]

\* from_coordinates: output row x is the weighted sum of the input rows cols[x][e]
FromCoordinates(cols, weits) ==
    [x \in DOMAIN cols |-> [e \in 1 .. 4 |-> [col |-> cols[x][e], weit |-> weits[x][e]]]]

\* reduction @ p, on a vector of 2-D points
MatMulReduce(red, p) == [k \in DOMAIN red |-> p[red[k]]]

RECURSIVE WeightedSum(_, _, _, _)
WeightedSum(row, v, c, e) ==
    IF e = 0 THEN RInt(0)
    ELSE RAdd(RMul(row[e].weit, v[row[e].col][c]), WeightedSum(row, v, c, e - 1))

\* restoration @ v, on a vector of 2-D points
MatMulRestore(res, v) ==
    [x \in DOMAIN res |-> <<WeightedSum(res[x], v, 1, 4), WeightedSum(res[x], v, 2, 4)>>]

-----------------------------------------------------------------------------
(* mesh_skeleton *)

EnumerateIdle ==
    /\ mesh = <<>> /\ unique_rows = <<>> /\ node_positions = <<>>
    /\ node_indices = <<>> /\ values = <<>> /\ scales = <<>>
    /\ cell_definitions = <<>> /\ cell_weights = <<>> /\ cell_scales = <<>>

\* A returned float is +inf, -inf, or the finite number
\*     halves/2 - SUM over k of logs[k][1]*ln(logs[k][2])
\*              + SUM over k of exp(exps[k][1]) + exp(exps[k][2])
\* kept exactly: halves is an integer, logs lists <<weight, argument>> pairs and
\* exps lists pairs of exponents.
NoEnergy == [kind |-> "none", halves |-> 0, logs |-> <<>>, exps |-> <<>>]
PosInf == [kind |-> "inf", halves |-> 0, logs |-> <<>>, exps |-> <<>>]
NegInf == [kind |-> "-inf", halves |-> 0, logs |-> <<>>, exps |-> <<>>]
Finite(halves, logs) == [kind |-> "finite", halves |-> halves, logs |-> logs, exps |-> <<>>]
Exponential(exps) == [kind |-> "finite", halves |-> 0, logs |-> <<>>, exps |-> exps]

DriverIdle ==
    /\ caller = "none" /\ latitudes = <<>> /\ progression = <<>>
    /\ transformations = <<>> /\ level = 0 /\ history = <<>> /\ saved = <<>>

EnergyIdle ==
    /\ trace = <<>> /\ antitrace = <<>> /\ strain_a = <<>> /\ strain_b = <<>>
    /\ weights = <<>> /\ energy = NoEnergy
    /\ dPhi = <<>> /\ dLambda = <<>>

SkeletonIdle ==
    /\ lookup_table = <<>> /\ factor = 0 /\ sec2 = <<>>
    /\ east_neibor = <<>> /\ west_neibor = <<>>
    /\ north_neibor = <<>> /\ south_neibor = <<>>
    /\ has_defined_neibors = <<>> /\ is_defined = <<>> /\ reindex = <<>>
    /\ walk = "none" /\ state = <<>> /\ distance_traveld = <<>> /\ arrived = <<>>
    /\ reference = NoArrays /\ distance = NoArrays
    /\ defining_indices = <<>> /\ defining_weits = <<>>
    /\ reduction = <<>> /\ restoration = <<>>

SkeletonInit ==
    /\ component = "mesh_skeleton"
    /\ pc = "start"
    /\ lookup_table \in Tables
    /\ factor \in 1 .. MaxFactor
    /\ sec2 \in Sec2Profiles(lookup_table.rows)
    /\ east_neibor = <<>> /\ west_neibor = <<>>
    /\ north_neibor = <<>> /\ south_neibor = <<>>
    /\ has_defined_neibors = <<>> /\ is_defined = <<>> /\ reindex = <<>>
    /\ walk = "none" /\ state = <<>> /\ distance_traveld = <<>> /\ arrived = <<>>
    /\ reference = NoArrays /\ distance = NoArrays
    /\ defining_indices = <<>> /\ defining_weits = <<>>
    /\ reduction = <<>> /\ restoration = <<>>
    /\ EnumerateIdle
    /\ EnergyIdle
    /\ DriverIdle

\* lines 193-224: the graphs, and the marks of the anchor rows and anchor columns
MarkAnchors ==
    /\ component = "mesh_skeleton" /\ pc = "start"
    /\ east_neibor' = NeiborArray(lookup_table, 0, 1)
    /\ west_neibor' = NeiborArray(lookup_table, 0, -1)
    /\ north_neibor' = NeiborArray(lookup_table, 1, 0)
    /\ south_neibor' = NeiborArray(lookup_table, -1, 0)
    /\ \E marks \in {AnchorMarks(lookup_table, factor, sec2)} :
           /\ has_defined_neibors' = marks.has_defined_neibors
           /\ is_defined' = marks.is_defined
    /\ pc' = "anchors"
    /\ UNCHANGED <<component, lookup_table, factor, sec2, reindex, walk, state,
                   distance_traveld, arrived, reference, distance,
                   defining_indices, defining_weits, reduction, restoration,
                   outside_skeleton>>

\* lines 225-234: the key nodes, and the entry into the first walk
MarkNodes ==
    /\ component = "mesh_skeleton" /\ pc = "anchors"
    /\ LET hdn == HasDefinedNeibors(lookup_table, factor, north_neibor, south_neibor)
           def == IsDefined(lookup_table, factor, sec2, hdn, east_neibor, west_neibor)
       IN  /\ has_defined_neibors' = hdn
           /\ is_defined' = def
           /\ reindex' = Reindex(def)
           /\ EnterFollowGraph("n", [x \in Range(NFull(lookup_table)) |-> x], hdn)
    /\ pc' = "walk"
    /\ UNCHANGED <<component, lookup_table, factor, sec2, east_neibor, west_neibor,
                   north_neibor, south_neibor, reference, distance,
                   defining_indices, defining_weits, reduction, restoration,
                   outside_skeleton>>

\* lines 63, 66-68: nobody is about to loop, every walker that has not arrived
\* moves on
FollowStep ==
    /\ component = "mesh_skeleton" /\ pc = "walk"
    /\ AnyNotArrived
    /\ ~AboutToLoop
    /\ \A k \in DOMAIN state : distance_traveld[k] < MaxHops
    /\ LET next == [k \in DOMAIN state |->
                       IF arrived[k] THEN state[k]
                       ELSE PyIndex(Progression(walk), state[k])]
       IN  /\ state' = next
           /\ distance_traveld' = [k \in DOMAIN state |->
                                      IF arrived[k] THEN distance_traveld[k]
                                      ELSE distance_traveld[k] + 1]
           /\ arrived' = [k \in DOMAIN state |-> PyIndex(Until(walk), next[k])]
    /\ UNCHANGED <<component, pc, lookup_table, factor, sec2, east_neibor, west_neibor,
                   north_neibor, south_neibor, has_defined_neibors, is_defined, reindex,
                   walk, reference, distance, defining_indices, defining_weits,
                   reduction, restoration, outside_skeleton>>

\* lines 64-65: ValueError
FollowRaise ==
    /\ component = "mesh_skeleton" /\ pc = "walk"
    /\ AnyNotArrived
    /\ AboutToLoop
    /\ pc' = "raised"
    /\ UNCHANGED <<component, skel_vars, outside_skeleton>>

\* line 69, and the next of lines 235-239
FollowReturn ==
    /\ component = "mesh_skeleton" /\ pc = "walk"
    /\ ~AnyNotArrived
    /\ reference' = [reference EXCEPT ![walk] = state]
    /\ distance' = [distance EXCEPT ![walk] = distance_traveld]
    /\ CASE walk = "n"  -> EnterFollowGraph("ne", state, is_defined) /\ pc' = "walk"
         [] walk = "ne" -> EnterFollowGraph("nw", reference["n"], is_defined) /\ pc' = "walk"
         [] walk = "nw" -> /\ EnterFollowGraph("s", [x \in DOMAIN state |-> x],
                                               has_defined_neibors)
                           /\ pc' = "walk"
         [] walk = "s"  -> EnterFollowGraph("se", state, is_defined) /\ pc' = "walk"
         [] walk = "se" -> EnterFollowGraph("sw", reference["s"], is_defined) /\ pc' = "walk"
         [] OTHER       -> /\ pc' = "weits"
                           /\ UNCHANGED <<walk, state, distance_traveld, arrived>>
    /\ UNCHANGED <<component, lookup_table, factor, sec2, east_neibor, west_neibor,
                   north_neibor, south_neibor, has_defined_neibors, is_defined, reindex,
                   defining_indices, defining_weits, reduction, restoration,
                   outside_skeleton>>

\* lines 240-257
BuildOperators ==
    /\ component = "mesh_skeleton" /\ pc = "weits"
    /\ LET nodes == DOMAIN is_defined
           n_weit == [x \in nodes |-> WeitA(distance["n"][x], distance["s"][x])]
           s_weit == [x \in nodes |-> WeitB(distance["n"][x], distance["s"][x])]
           ne_weit == [x \in nodes |-> WeitA(distance["ne"][x], distance["nw"][x])]
           nw_weit == [x \in nodes |-> WeitB(distance["ne"][x], distance["nw"][x])]
           se_weit == [x \in nodes |-> WeitA(distance["se"][x], distance["sw"][x])]
           sw_weit == [x \in nodes |-> WeitB(distance["se"][x], distance["sw"][x])]
           indices == [x \in nodes |-> <<reference["ne"][x], reference["nw"][x],
                                         reference["se"][x], reference["sw"][x]>>]
           weits == [x \in nodes |-> <<RMul(n_weit[x], ne_weit[x]),
                                       RMul(n_weit[x], nw_weit[x]),
                                       RMul(s_weit[x], se_weit[x]),
                                       RMul(s_weit[x], sw_weit[x])>>]
       IN  /\ defining_indices' = indices
           /\ defining_weits' = weits
           /\ reduction' = IdentityRows(is_defined)
           /\ restoration' = FromCoordinates(
                  [x \in nodes |-> [e \in 1 .. 4 |-> PyIndex(reindex, indices[x][e])]],
                  weits)
    /\ pc' = "done"
    /\ UNCHANGED <<component, lookup_table, factor, sec2, east_neibor, west_neibor,
                   north_neibor, south_neibor, has_defined_neibors, is_defined, reindex,
                   walk, state, distance_traveld, arrived, reference, distance,
                   outside_skeleton>>

SkeletonNext == MarkAnchors \/ MarkNodes \/ FollowStep \/ FollowRaise \/ FollowReturn \/ BuildOperators

SkeletonSpec == SkeletonInit /\ [][SkeletonNext]_vars


-----------------------------------------------------------------------------
(* Properties of mesh_skeleton *)

SkeletonDone == component = "mesh_skeleton" /\ pc = "done"

Point(x, y) == <<RInt(x), RInt(y)>>

\* the position vector that is (1, -1) at node l and the origin elsewhere
UnitVector(D, l) == [x \in D |-> IF x = l THEN Point(1, -1) ELSE Point(0, 0)]

\* a position vector with a different point at every node
SpreadVector(D) == [x \in D |-> Point(x, x * x + 1)]

ConstantVector(D, c) == [x \in D |-> Point(c, c)]

ProbeVectors(D) == {UnitVector(D, l) : l \in D} \cup {SpreadVector(D)}

\* C1: whenever mesh_skeleton returns, restore @ (reduce @ p) equals p at every
\* key node for every full position vector p (checked on a basis of the position
\* vectors and on one vector with all points different), reduce @ (restore @ v)
\* equals v for every reduced vector v, and the k-th row that reduce selects is the
\* node whose reindex value is k.
ReduceRestoreExactOnKeys ==
    SkeletonDone =>
        LET nodes == DOMAIN is_defined
            keys == DOMAIN reduction
        IN  /\ \A k \in keys : is_defined[reduction[k]] /\ reindex[reduction[k]] = k
            /\ \A p \in ProbeVectors(nodes) :
                   LET q == MatMulRestore(restoration, MatMulReduce(reduction, p))
                   IN  \A x \in nodes : is_defined[x] => q[x] = p[x]
            /\ \A v \in ProbeVectors(keys) :
                   MatMulReduce(reduction, MatMulRestore(restoration, v)) = v

\* mesh_skeleton returned a proper reduction: some nodes are keys and some are not
ProperReductionReturned ==
    /\ SkeletonDone
    /\ \E x \in DOMAIN is_defined : is_defined[x]
    /\ \E x \in DOMAIN is_defined : ~is_defined[x]

\* C2: whenever mesh_skeleton returns, the four restoration weights of every node
\* are n*ne, n*nw, s*se, s*sw, each in [0,1] and summing to exactly 1, where a
\* stage weight is the opposite side's hop count over the sum of the two hop
\* counts, and 1 for the first side and 0 for the second when both counts are 0.
RestorationWeightsConvex ==
    SkeletonDone =>
        \A x \in DOMAIN is_defined :
            LET own(a, b) == IF a + b = 0 THEN RInt(1) ELSE Rat(b, a + b)
                other(a, b) == IF a + b = 0 THEN RInt(0) ELSE Rat(a, a + b)
                dn == distance["n"][x]
                ds == distance["s"][x]
                dne == distance["ne"][x]
                dnw == distance["nw"][x]
                dse == distance["se"][x]
                dsw == distance["sw"][x]
                w == defining_weits[x]
            IN  /\ w = <<RMul(own(dn, ds), own(dne, dnw)),
                         RMul(own(dn, ds), other(dne, dnw)),
                         RMul(other(dn, ds), own(dse, dsw)),
                         RMul(other(dn, ds), other(dse, dsw))>>
                /\ \A e \in 1 .. 4 : RLeq(RInt(0), w[e]) /\ RLeq(w[e], RInt(1))
                /\ RAdd(RAdd(w[1], w[2]), RAdd(w[3], w[4])) = RInt(1)

\* mesh_skeleton returned and some node is restored from four references, each
\* with a weight strictly between 0 and 1
FourWayInterpolatedNode ==
    /\ SkeletonDone
    /\ \E x \in DOMAIN is_defined :
           \A e \in 1 .. 4 : defining_weits[x][e] \notin {RInt(0), RInt(1)}

\* the start of walker k in the running follow_graph call
Frum(k) ==
    CASE walk \in {"n", "s"} -> k
      [] walk \in {"ne", "nw"} -> reference["n"][k]
      [] OTHER -> reference["s"][k]

\* a walker is back on the node it started from without having arrived
WalkCycled ==
    /\ component = "mesh_skeleton" /\ pc = "walk"
    /\ \E k \in DOMAIN state :
           ~arrived[k] /\ distance_traveld[k] > 0 /\ state[k] = Frum(k)

\* C3: when a neighbour walk of mesh_skeleton comes back to its starting node
\* without reaching a terminal node, the next thing that happens is the
\* malformed-mesh error (as for the isolated two-node loop).
CycleRaisesMalformedMesh == [][WalkCycled => pc' = "raised"]_vars

\* nodes of the 5 x 5 grid at rows and columns 0, 2, 4
NineKeys == {5 * i + j : i \in {0, 2, 4}, j \in {0, 2, 4}}

FiveByFiveCase ==
    /\ lookup_table = FullGrid5
    /\ factor = 2
    /\ \A i \in Range(5) : EastWestFactor(factor, sec2[i]) = 2

-----------------------------------------------------------------------------
(* Floats that may be nan: <<v>> is the number v, <<>> is nan *)

NaN == <<>>

IsNan(f) == f = NaN

Num(v) == <<v>>

\* the order numpy sorts floats in: nan after every number
FloatLess(a, b) == IF IsNan(a) THEN FALSE ELSE IsNan(b) \/ a[1] < b[1]

FloatTied(a, b) == ~FloatLess(a, b) /\ ~FloatLess(b, a)

\* rows of two floats, in lexicographic order
RowLess(p, q) == FloatLess(p[1], q[1]) \/ (FloatTied(p[1], q[1]) /\ FloatLess(p[2], q[2]))

HasNan(p) == IsNan(p[1]) \/ IsNan(p[2])

-----------------------------------------------------------------------------
(* Meshes given to enumerate_nodes *)

AbsentPoint == <<NaN, NaN>>

\* Section h covers the columns h*shift .. h*shift + cols - 1 of the globe, so that
\* sections overlap, share a boundary column or are disjoint; with `pole`, every
\* entry of row 0 is the same point.
MeshPoint(p, shift, pole) ==
    IF pole /\ p[2] = 0 THEN <<Num(0), Num(0)>>
    ELSE <<Num(p[3] + p[1] * shift - p[2]), Num(p[2])>>

MeshOfSize(H, R, C, shift, pole, absent) ==
    [sections |-> H, rows |-> R, cols |-> C,
     at |-> [p \in Positions(H, R, C) |->
                IF p \in absent THEN AbsentPoint ELSE MeshPoint(p, shift, pole)]]

MeshOf(shift, pole, absent) ==
    MeshOfSize(MeshSections, MeshRows, MeshCols, shift, pole, absent)

RECURSIVE SubsetsUpTo(_, _)
\* the subsets of S with at most k elements
SubsetsUpTo(S, k) ==
    IF k = 0 THEN {{}}
    ELSE LET smaller == SubsetsUpTo(S, k - 1)
         IN  smaller \cup {a \cup {x} : a \in smaller, x \in S}

AllAbsentMesh == MeshOf(0, FALSE, Positions(MeshSections, MeshRows, MeshCols))

Meshes ==
    {MeshOf(shift, pole, absent) :
        shift \in {0, MeshCols - 1, MeshCols},
        pole \in BOOLEAN,
        absent \in SubsetsUpTo(Positions(MeshSections, MeshRows, MeshCols), MeshAbsent)}
    \cup {AllAbsentMesh}

-----------------------------------------------------------------------------
(* enumerate_nodes *)

\* mesh.reshape((-1, 2)): the rows in scan order
Flatten(m) ==
    [f \in Range(m.sections * m.rows * m.cols) |->
        m.at[<<f \div (m.rows * m.cols), (f \div m.cols) % m.rows, f % m.cols>>]]

\* The place of flat row f in np.unique's output: equal rows share a place, a row
\* holding a nan equals no row (nan != nan) and has a place of its own, after the
\* rows that sort before it.
SortedPlace(rows, f) ==
    Cardinality({rows[g] : g \in {k \in DOMAIN rows : ~HasNan(rows[k])
                                                       /\ RowLess(rows[k], rows[f])}})
    + Cardinality({g \in DOMAIN rows :
                      /\ HasNan(rows[g])
                      /\ \/ RowLess(rows[g], rows[f])
                         \/ ~RowLess(rows[f], rows[g]) /\ g < f})

\* np.unique(rows, axis=0, return_inverse=True): the inverse, flat
SortedPlaces(rows) == [f \in DOMAIN rows |-> SortedPlace(rows, f)]

\* ... the sorted rows, given the inverse
UniqueRows(rows, place) ==
    [k \in Range(Cardinality({place[f] : f \in DOMAIN rows})) |->
        rows[CHOOSE f \in DOMAIN rows : place[f] = k]]

\* line 91: the inverse, reshaped to the mesh
UniqueInverse(m, place) == [p \in DOMAIN m.at |-> place[ScanOrder(m, p)]]

\* np.nonzero(np.isnan(node_positions[:, 0]))[0]
NanPlaces(rows) == {k \in DOMAIN rows : IsNan(rows[k][1])}

SetMin(S) == CHOOSE m \in S : \A x \in S : m <= x

\* lines 95-96, given nan_index
CutPositions(rows, nan_index) == [k \in Range(nan_index) |-> rows[k]]

\* CutIndices that leaves the first nan's own index in place
CutIndicesAbove(indices, nan_index) ==
    [p \in DOMAIN indices |-> IF indices[p] > nan_index THEN -1 ELSE indices[p]]

CutIndices(indices, nan_index) ==
    [p \in DOMAIN indices |-> IF indices[p] >= nan_index THEN -1 ELSE indices[p]]

EnumerateInit ==
    /\ component = "enumerate"
    /\ pc = "start"
    /\ mesh \in Meshes
    /\ unique_rows = <<>> /\ node_positions = <<>>
    /\ node_indices = <<>> /\ values = <<>> /\ scales = <<>>
    /\ cell_definitions = <<>> /\ cell_weights = <<>> /\ cell_scales = <<>>
    /\ SkeletonIdle
    /\ EnergyIdle
    /\ DriverIdle

\* lines 89-91
FlattenAndSort ==
    /\ component = "enumerate" /\ pc = "start"
    /\ \E rows \in {Flatten(mesh)} :
       \E place \in {SortedPlaces(rows)} :
           /\ unique_rows' = UniqueRows(rows, place)
           /\ node_indices' = UniqueInverse(mesh, place)
    /\ pc' = "unique"
    /\ UNCHANGED <<component, mesh, node_positions, values, scales, cell_definitions,
                   cell_weights, cell_scales, outside_enumerate>>

\* lines 94-98, when some unique row is nan
RemoveNans ==
    /\ component = "enumerate" /\ pc = "unique"
    /\ NanPlaces(unique_rows) # {}
    /\ LET nan_index == SetMin(NanPlaces(unique_rows))
       IN  /\ node_positions' = CutPositions(unique_rows, nan_index)
           /\ node_indices' = CutIndices(node_indices, nan_index)
    /\ pc' = "nodes"
    /\ UNCHANGED <<component, mesh, unique_rows, values, scales, cell_definitions,
                   cell_weights, cell_scales, outside_enumerate>>

\* line 94, when no unique row is nan: [0][0] of an empty array, IndexError
NoNanIndexError ==
    /\ component = "enumerate" /\ pc = "unique"
    /\ NanPlaces(unique_rows) = {}
    /\ pc' = "IndexError"
    /\ UNCHANGED <<component, enum_vars, outside_enumerate>>


-----------------------------------------------------------------------------
(* downsample.  A raster is [shape, full]: an array of the given shape (<<>> for a
   0-d constant) whose pixels are block means of the loaded array of shape `full` *)

Loaded(shape) == [shape |-> shape, full |-> shape]

\* the rasters load_pixel_values may hand over for an R x C grid: a constant, or
\* an array with as many or more rows and columns
RasterShapes(R, C) == {<<>>} \cup {<<R + d, C + e>> : d \in {0, MaxExtra}, e \in {0, MaxExtra}}

\* the same kind of raster for every section; values and scales of the same shape,
\* or one of them constant
RasterPairs(R, C) ==
    {vs \in RasterShapes(R, C) \X RasterShapes(R, C) :
        vs[1] = vs[2] \/ vs[1] = <<>> \/ vs[2] = <<>>}

\* ShapeAsserted that also lets through an axis of the same size
ShapeAssertedOrEqual(full, shape) ==
    /\ Len(shape) = Len(full)
    /\ \A i \in 1 .. Len(shape) : shape[i] <= full[i]

\* lines 40-42: the assertions hold
ShapeAsserted(full, shape) ==
    /\ Len(shape) = Len(full)
    /\ \A i \in 1 .. Len(shape) : shape[i] < full[i]

\* the assertions of downsample(full, shape) fail
DownsampleFails(full, shape) == full.shape # <<>> /\ ~ShapeAsserted(full.shape, shape)

\* lines 44-45: the pixels of the full axis that i is the nearest neibor of
NearestOf(full_size, reduc_size, i) ==
    {k \in Range(full_size) : (k * reduc_size) \div full_size = i}

Downsample(full, shape) == [shape |-> shape, full |-> full.full]

\* lines 122-124: the rasters are resampled in the order values[0], scales[0],
\* values[1], ... up to the first one whose assertions fail
Resampled(vals, scls, shape) ==
    LET H == Size(vals)
        raster(t) == IF t % 2 = 0 THEN vals[t \div 2] ELSE scls[t \div 2]
        bad == {t \in Range(2 * H) : DownsampleFails(raster(t), shape)}
        stop == IF bad = {} THEN 2 * H ELSE SetMin(bad)
    IN  [values |-> [h \in Range(H) |->
                        IF 2 * h < stop THEN Downsample(vals[h], shape) ELSE vals[h]],
         scales |-> [h \in Range(H) |->
                        IF 2 * h + 1 < stop THEN Downsample(scls[h], shape) ELSE scls[h]],
         failed |-> bad # {}]

-----------------------------------------------------------------------------
(* enumerate_cells *)

GridShape(tbl) == <<tbl.rows, tbl.cols>>

NodeTable == [sections |-> mesh.sections, rows |-> mesh.rows, cols |-> mesh.cols,
              at |-> node_indices]

\* lines 129-146: the row of the 12-column array for cell (h,i,j) and offsets di, dj
Candidate(at, h, i, j, di, dj) ==
    [h |-> h, i |-> i, j |-> j, node1_i |-> i + di, node2_i |-> i + 1 - di,
     definition |-> <<h, i + di, j + dj,
                      at[<<h, i + di, j>>], at[<<h, i + di, j + 1>>],
                      at[<<h, i, j + dj>>], at[<<h, i + 1, j + dj>>]>>]

\* the last four columns: west, east, south, north
Corners(cand) == SubSeq(cand.definition, 4, 7)

\* the row number of a candidate in the concatenated array
CandidateOrder(tbl, cand) ==
    LET di == cand.node1_i - cand.i
        dj == cand.definition[3] - cand.j
        n == tbl.sections * (tbl.rows - 1) * (tbl.cols - 1)
    IN  (2 * di + dj) * n + (cand.h * (tbl.rows - 1) + cand.i) * (tbl.cols - 1) + cand.j

Candidates(tbl) ==
    {Candidate(tbl.at, h, i, j, di, dj) :
        h \in Range(tbl.sections), i \in Range(tbl.rows - 1), j \in Range(tbl.cols - 1),
        di \in {0, 1}, dj \in {0, 1}}

\* lexicographic order of integer rows of equal length
RECURSIVE TupleLess(_, _)
TupleLess(a, b) ==
    /\ a # <<>>
    /\ \/ Head(a) < Head(b)
       \/ Head(a) = Head(b) /\ TupleLess(Tail(a), Tail(b))

\* lines 149-150: the first candidate of every distinct corner tuple
FirstOfTuple(tbl, cands) ==
    {c \in cands :
        \A d \in cands :
            Corners(d) = Corners(c) => CandidateOrder(tbl, c) <= CandidateOrder(tbl, d)}

MissingNode(cand) == \E e \in 1 .. 4 : Corners(cand)[e] = -1

\* Degenerate comparing west with south instead of with east
DegenerateWestSouth(cand) == Corners(cand)[1] = Corners(cand)[3]

Degenerate(cand) == Corners(cand)[1] = Corners(cand)[2]

\* lines 153-155
KeptCells(firsts) == {c \in firsts : ~(MissingNode(c) \/ Degenerate(c))}

\* the kept candidates in the order np.unique leaves them in: sorted by corners
CornerPlaces(kept) ==
    [c \in kept |-> Cardinality({d \in kept : TupleLess(Corners(d), Corners(c))})]

SortedCells(kept, place) ==
    [k \in Range(Cardinality(kept)) |-> CHOOSE c \in kept : place[c] = k]

\* lines 122-126, every assertion of downsample holding
ResampleRasters ==
    /\ component = "enumerate" /\ pc = "nodes"
    /\ \E vs \in RasterPairs(mesh.rows, mesh.cols) :
           LET r == Resampled([h \in Range(mesh.sections) |-> Loaded(vs[1])],
                              [h \in Range(mesh.sections) |-> Loaded(vs[2])],
                              GridShape(NodeTable))
           IN  /\ ~r.failed
               /\ values' = r.values
               /\ scales' = r.scales
    /\ pc' = "resampled"
    /\ UNCHANGED <<component, mesh, unique_rows, node_positions, node_indices,
                   cell_definitions, cell_weights, cell_scales, outside_enumerate>>

\* lines 122-124, an assertion of downsample failing
ResampleAssertionError ==
    /\ component = "enumerate" /\ pc = "nodes"
    /\ \E vs \in RasterPairs(mesh.rows, mesh.cols) :
           LET r == Resampled([h \in Range(mesh.sections) |-> Loaded(vs[1])],
                              [h \in Range(mesh.sections) |-> Loaded(vs[2])],
                              GridShape(NodeTable))
           IN  /\ r.failed
               /\ values' = r.values
               /\ scales' = r.scales
    /\ pc' = "AssertionError"
    /\ UNCHANGED <<component, mesh, unique_rows, node_positions, node_indices,
                   cell_definitions, cell_weights, cell_scales, outside_enumerate>>

\* lines 128-173
AssembleCells ==
    /\ component = "enumerate" /\ pc = "resampled"
    /\ \E cands \in {Candidates(NodeTable)} :
       \E kept \in {KeptCells(FirstOfTuple(NodeTable, cands))} :
       \E place \in {CornerPlaces(kept)} :
       \E cells \in {SortedCells(kept, place)} :
           /\ cell_definitions' = [k \in DOMAIN cells |-> cells[k].definition]
           \* (3*A_1 + A_2)/16/(4 pi R^2) * values[h, i, j], kept as its operands
           /\ cell_weights' = [k \in DOMAIN cells |->
                                  [A_1_row |-> cells[k].node1_i,
                                   A_2_row |-> cells[k].node2_i,
                                   value_at |-> <<cells[k].h, cells[k].i, cells[k].j>>,
                                   value_of |-> values[cells[k].h]]]
           \* sqrt(scales[h, i, j]), kept as its operand
           /\ cell_scales' = [k \in DOMAIN cells |->
                                 [scale_at |-> <<cells[k].h, cells[k].i, cells[k].j>>,
                                  scale_of |-> scales[cells[k].h]]]
    /\ pc' = "cells"
    /\ UNCHANGED <<component, mesh, unique_rows, node_positions, node_indices, values,
                   scales, outside_enumerate>>

EnumerateNext ==
    \/ FlattenAndSort \/ RemoveNans \/ NoNanIndexError
    \/ ResampleRasters \/ ResampleAssertionError \/ AssembleCells

EnumerateSpec == EnumerateInit /\ [][EnumerateNext]_vars


-----------------------------------------------------------------------------
(* Properties of enumerate_nodes and enumerate_cells *)

NodesReturned == component = "enumerate" /\ pc \in {"nodes", "resampled", "AssertionError", "cells"}

Entries == DOMAIN mesh.at

\* C5: whenever enumerate_nodes returns, two grid entries with equal coordinates
\* have the same node index and entries with different coordinates have
\* different indices, every absent (nan) entry maps to -1 and contributes no row
\* to the position list, and the all-absent grid gives an empty position list and
\* an all -1 table.
NodesDeduplicated ==
    NodesReturned =>
        \A present \in {{p \in Entries : ~HasNan(mesh.at[p])}} :
            /\ \A p \in present : \A q \in present :
                   (node_indices[p] = node_indices[q]) <=> (mesh.at[p] = mesh.at[q])
            /\ \A p \in present : node_indices[p] >= 0
            /\ \A p \in Entries \ present : node_indices[p] = -1
            /\ \A k \in DOMAIN node_positions : ~HasNan(node_positions[k])
            /\ Size(node_positions) = Cardinality({mesh.at[p] : p \in present})
            /\ mesh = AllAbsentMesh =>
                   node_positions = <<>> /\ \A p \in Entries : node_indices[p] = -1

\* enumerate_nodes returned on a grid with an absent entry and with two entries of
\* different sections that hold the same point
SharedCornerEnumerated ==
    /\ NodesReturned
    /\ \E p \in Entries : HasNan(mesh.at[p])
    /\ \E p \in Entries : \E q \in Entries :
           p[1] # q[1] /\ mesh.at[p] = mesh.at[q] /\ node_indices[p] = node_indices[q]
                       /\ node_indices[p] >= 0

\* C6: enumerate_nodes returns normally on every grid, fully defined grids
\* included, with the node indices forming 0..n-1 (n the number of distinct
\* non-absent points) and positions[lookup[h,i,j]] = grid[h,i,j] at every
\* non-absent entry.
NodesAlwaysReturnedDense ==
    component = "enumerate" =>
        /\ pc # "IndexError"
        /\ NodesReturned =>
               LET present == {p \in Entries : ~HasNan(mesh.at[p])}
                   n == Cardinality({mesh.at[p] : p \in present})
               IN  /\ {node_indices[p] : p \in present} = Range(n)
                   /\ \A p \in present : node_positions[node_indices[p]] = mesh.at[p]

CellsReturned == component = "enumerate" /\ pc = "cells"

\* the corner tuple (west, east, south, north) of the candidate cell at (h,i,j)
\* with corner offsets di, dj
CornerTuple(h, i, j, di, dj) ==
    <<node_indices[<<h, i + di, j>>], node_indices[<<h, i + di, j + 1>>],
      node_indices[<<h, i, j + dj>>], node_indices[<<h, i + 1, j + dj>>]>>

\* (di, dj, h, i, j) in the order the candidates are assembled in
CandidateKeys ==
    {0, 1} \X {0, 1} \X Range(mesh.sections) \X Range(mesh.rows - 1) \X Range(mesh.cols - 1)

KeyTuple(c) == CornerTuple(c[3], c[4], c[5], c[1], c[2])

ValidTuple(t) == (\A e \in 1 .. 4 : t[e] >= 0) /\ t[1] # t[2]

\* C7: every cell enumerate_cells returns has four corner indices >= 0 and west #
\* east, no two returned cells have the same corner tuple, and every candidate of
\* the four (di,dj) combinations that has these properties and is the first with
\* its tuple is returned.
CellsValidAndComplete ==
    CellsReturned =>
        \A corners \in {[k \in DOMAIN cell_definitions |-> SubSeq(cell_definitions[k], 4, 7)]} :
        \A keys \in {CandidateKeys} :
        \A tuple \in {[c \in keys |-> KeyTuple(c)]} :
            /\ \A k \in DOMAIN corners : ValidTuple(corners[k])
            /\ \A k \in DOMAIN corners : \A l \in DOMAIN corners :
                   k # l => corners[k] # corners[l]
            /\ \A c \in keys :
                   (/\ ValidTuple(tuple[c])
                    /\ \A d \in keys : tuple[d] = tuple[c] => ~TupleLess(d, c))
                   => \E k \in DOMAIN cell_definitions :
                          cell_definitions[k] = <<c[3], c[4] + c[1], c[5] + c[2]>> \o tuple[c]

\* enumerate_cells returned some cells and dropped a candidate with a missing
\* node, a degenerate one and a repeated one
CellsDroppedForEveryReason ==
    /\ CellsReturned
    /\ cell_definitions # <<>>
    /\ \E c \in CandidateKeys : \E e \in 1 .. 4 : KeyTuple(c)[e] = -1
    /\ \E c \in CandidateKeys : KeyTuple(c)[1] = KeyTuple(c)[2] /\ KeyTuple(c)[1] # -1
    /\ \E c \in CandidateKeys : \E d \in CandidateKeys :
           c # d /\ KeyTuple(c) = KeyTuple(d) /\ ValidTuple(KeyTuple(c))

Rasters == {values[h] : h \in DOMAIN values} \cup {scales[h] : h \in DOMAIN scales}

\* a 2-D array with more rows and more columns than the grid
LargerThanGrid(shape) ==
    Len(shape) = 2 /\ mesh.rows < shape[1] /\ mesh.cols < shape[2]

\* C8 as claimed: enumerate_cells raises no error when every raster is a constant
\* or a 2-D array already at the grid's (rows, columns) resolution.
NoErrorAtGridResolution ==
    (/\ component = "enumerate"
     /\ \A r \in Rasters : r.full = <<>> \/ r.full = <<mesh.rows, mesh.cols>>)
    => pc # "AssertionError"

\* C8, amended: enumerate_cells raises no error, and resamples every raster to the
\* grid's shape, when every raster is a constant or a 2-D array with more rows and
\* more columns than the grid; it fails an assertion of downsample only when some
\* raster is an array that is not larger than the grid on both axes.
ErrorOnlyWhenRasterNotLarger ==
    component = "enumerate" =>
        /\ pc \in {"resampled", "cells"} =>
               \A r \in Rasters :
                   /\ r.shape = <<mesh.rows, mesh.cols>>
                   /\ r.full = <<>> \/ LargerThanGrid(r.full)
        /\ pc = "AssertionError" =>
               \E r \in Rasters : r.full # <<>> /\ ~LargerThanGrid(r.full)

\* enumerate_cells returned after downsampling a larger array
LargerRasterDownsampled ==
    /\ CellsReturned
    /\ \E r \in Rasters : LargerThanGrid(r.full)


-----------------------------------------------------------------------------
(* The objective functions of create_map_projection, lines 514-533, on the   *)
(* principal strains of compute_principal_strains, lines 283-285.  The two   *)
(* square roots of lines 283-284 are inputs: whole numbers from 0.           *)

RECURSIVE SumFirst(_, _)
\* ndarray.sum() of the first n entries
SumFirst(arr, n) == IF n = 0 THEN 0 ELSE arr[n - 1] + SumFirst(arr, n - 1)

Sum(arr) == SumFirst(arr, Size(arr))

\* line 285: trace + antitrace, trace - antitrace
PrincipalStrains(tr, anti) ==
    [a |-> [k \in DOMAIN tr |-> tr[k] + anti[k]],
     b |-> [k \in DOMAIN tr |-> tr[k] - anti[k]]]

\* np.any(a <= 0) looking at the major strain only
AnyMajorNonPositive(a, b) == {k \in DOMAIN a : a[k] <= 0} # {}

\* line 527: np.any(a <= 0) or np.any(b <= 0)
AnyNonPositive(a, b) ==
    {k \in DOMAIN a : a[k] <= 0} # {} \/ {k \in DOMAIN b : b[k] <= 0} # {}

\* the all-positive test looking at the major strains only
AllMajorPositive(a, b) ==
    {k \in DOMAIN a : ~(a[k] > 0)} = {}

\* line 517: np.all(a > 0) and np.all(b > 0)
AllPositive(a, b) ==
    {k \in DOMAIN a : ~(a[k] > 0)} = {} /\ {k \in DOMAIN b : ~(b[k] > 0)} = {}

\* the lenient term with the shape term counted once
LenientTermSingleShape(a, b) == (a + b - 2) * (a + b - 2) + (a - b) * (a - b)

\* lines 520-522: scale_term + 2*shape_term of one cell
LenientTerm(a, b) == (a + b - 2) * (a + b - 2) + 2 * ((a - b) * (a - b))

\* lines 530-533 without the logarithm, doubled: (ab**2 - 1) + 2*2*shape_term
StrictTermDoubled(a, b) == ((a * b) * (a * b) - 1) + 4 * ((a - b) * (a - b))

\* line 507: the strain below which exp(-6*strain) is not attempted
OverflowGuard == 100

\* the overflow test also rejecting a strain of exactly -100
AnyAtOrBelowGuard(a, b) ==
    {k \in DOMAIN a : a[k] <= -OverflowGuard} # {} \/ {k \in DOMAIN b : b[k] <= -OverflowGuard} # {}

\* line 507: np.any(a < -100) or np.any(b < -100)
AnyBelowGuard(a, b) ==
    {k \in DOMAIN a : a[k] < -OverflowGuard} # {} \/ {k \in DOMAIN b : b[k] < -OverflowGuard} # {}

\* lines 502-512
compute_energy_aggressive(a, b) ==
    IF AllPositive(a, b) THEN NegInf
    ELSE IF AnyBelowGuard(a, b) THEN PosInf
    ELSE Exponential([k \in DOMAIN a |-> <<-6 * a[k], -6 * b[k]>>])

\* lines 514-522
compute_energy_lenient(a, b, w) ==
    IF AllPositive(a, b)
    THEN NegInf
    ELSE Finite(2 * Sum([k \in DOMAIN a |-> LenientTerm(a[k], b[k]) * w[k]]), <<>>)

\* lines 524-533
compute_energy_strict(a, b, w) ==
    IF AnyNonPositive(a, b)
    THEN PosInf
    ELSE Finite(Sum([k \in DOMAIN a |-> StrictTermDoubled(a[k], b[k]) * w[k]]),
                [k \in DOMAIN a |-> <<w[k], a[k] * b[k]>>])

EnergyInit ==
    /\ component = "energy" /\ pc = "start"
    /\ \E n \in 0 .. MaxCells :
           /\ trace \in [Range(n) -> 0 .. MaxStrain]
           /\ antitrace \in [Range(n) -> 0 .. MaxStrain \cup {OverflowGuard, OverflowGuard + 1}]
           /\ weights \in [Range(n) -> 1 .. MaxWeight]
    /\ strain_a = <<>> /\ strain_b = <<>> /\ energy = NoEnergy
    /\ dPhi = <<>> /\ dLambda = <<>>
    /\ SkeletonIdle
    /\ EnumerateIdle
    /\ DriverIdle

\* lines 260-285, from the square roots on
ComputePrincipalStrains ==
    /\ component = "energy" /\ pc = "start"
    /\ strain_a' = PrincipalStrains(trace, antitrace).a
    /\ strain_b' = PrincipalStrains(trace, antitrace).b
    /\ pc' = "strains"
    /\ UNCHANGED <<component, trace, antitrace, weights, energy, dPhi, dLambda, outside_energy>>

\* lines 502-512
ComputeEnergyAggressive ==
    /\ component = "energy" /\ pc = "strains"
    /\ energy' = compute_energy_aggressive(strain_a, strain_b)
    /\ pc' = "aggressive"
    /\ UNCHANGED <<component, trace, antitrace, strain_a, strain_b, weights, dPhi, dLambda,
                   outside_energy>>

\* lines 514-522
ComputeEnergyLenient ==
    /\ component = "energy" /\ pc = "strains"
    /\ energy' = compute_energy_lenient(strain_a, strain_b, weights)
    /\ pc' = "lenient"
    /\ UNCHANGED <<component, trace, antitrace, strain_a, strain_b, weights, dPhi, dLambda,
                   outside_energy>>

\* lines 524-533
ComputeEnergyStrict ==
    /\ component = "energy" /\ pc = "strains"
    /\ energy' = compute_energy_strict(strain_a, strain_b, weights)
    /\ pc' = "strict"
    /\ UNCHANGED <<component, trace, antitrace, strain_a, strain_b, weights, dPhi, dLambda,
                   outside_energy>>

EnergyNext ==
    \/ ComputePrincipalStrains
    \/ ComputeEnergyAggressive \/ ComputeEnergyLenient \/ ComputeEnergyStrict

EnergySpec == EnergyInit /\ [][EnergyNext]_vars

-----------------------------------------------------------------------------
(* Properties of the objective functions *)

Cells == DOMAIN strain_a

StrictReturned == component = "energy" /\ pc = "strict"

LenientReturned == component = "energy" /\ pc = "lenient"

\* C9: compute_energy_strict returns +inf if and only if some cell has a <= 0 or
\* b <= 0; when every cell has a > 0 and b > 0 it returns the finite weighted sum
\* of ((ab)^2 - 1)/2 - ln(ab) + 2(a - b)^2.
StrictInfiniteIffNonPositive ==
    StrictReturned =>
        LET folded == \E k \in Cells : strain_a[k] <= 0 \/ strain_b[k] <= 0
        IN  /\ (energy = PosInf) <=> folded
            /\ ~folded =>
                   /\ energy.kind = "finite"
                   /\ energy.halves =
                          Sum([k \in Cells |->
                                  weights[k] * ((strain_a[k] * strain_b[k]) * (strain_a[k] * strain_b[k]) - 1)
                                  + 4 * weights[k] * (strain_a[k] - strain_b[k]) * (strain_a[k] - strain_b[k])])
                   /\ DOMAIN energy.logs = Cells
                   /\ \A k \in Cells :
                          /\ energy.logs[k] = <<weights[k], strain_a[k] * strain_b[k]>>
                          /\ strain_a[k] * strain_b[k] > 0

\* the strict energy was evaluated on two cells, one with both strains positive
\* and one with a positive major and a negative minor strain
StrictOnOneFoldedCell ==
    /\ StrictReturned
    /\ energy = PosInf
    /\ \E k \in Cells : strain_a[k] > 0 /\ strain_b[k] > 0
    /\ \E k \in Cells : strain_a[k] > 0 /\ strain_b[k] < 0

AggressiveReturned == component = "energy" /\ pc = "aggressive"

\* C11: compute_energy_aggressive returns -inf exactly when every cell has a > 0
\* and b > 0; otherwise +inf exactly when some strain is below -100; otherwise
\* the finite sum of exp(-6a) + exp(-6b) over the cells.  The three outcomes
\* exclude each other and are tested in that order.
AggressiveThreeOutcomes ==
    AggressiveReturned =>
        LET valid == \A k \in Cells : strain_a[k] > 0 /\ strain_b[k] > 0
            below == \E k \in Cells : strain_a[k] < -100 \/ strain_b[k] < -100
        IN  /\ (energy = NegInf) <=> valid
            /\ (energy = PosInf) <=> (~valid /\ below)
            /\ (~valid /\ ~below) =>
                   /\ energy.kind = "finite"
                   /\ DOMAIN energy.exps = Cells
                   /\ \A k \in Cells :
                          /\ energy.exps[k] = <<-6 * strain_a[k], -6 * strain_b[k]>>
                          /\ energy.exps[k][1] <= 600 /\ energy.exps[k][2] <= 600

\* the aggressive energy was evaluated on a valid cell next to one whose minor
\* strain is exactly -100, and gave a finite sum
AggressiveAtTheGuard ==
    /\ AggressiveReturned
    /\ energy.kind = "finite"
    /\ \E k \in Cells : strain_a[k] > 0 /\ strain_b[k] > 0
    /\ \E k \in Cells : strain_b[k] = -100


-----------------------------------------------------------------------------
(* Which nodes mesh_skeleton makes key nodes *)

NodesMarked == component = "mesh_skeleton" /\ pc \notin {"start", "anchors"}

\* some position holding node x lies in an anchor row
RowAnchor(x) ==
    \E p \in TablePositions(lookup_table) :
        lookup_table.at[p] = x /\ Min2(p[2], lookup_table.rows - 1 - p[2]) % factor = 0

\* some position holding node x lies in an anchor column of its row
ColumnAnchor(x) ==
    \E p \in TablePositions(lookup_table) :
        lookup_table.at[p] = x /\ p[3] % RoundHalfEven(factor * sec2[p[2]]) = 0

\* node x is in an anchor row or at the north or south end of a run; no node (-1)
\* is not
OnKeyRow(x) == x # -1 /\ (RowAnchor(x) \/ north_neibor[x] = -1 \/ south_neibor[x] = -1)

-----------------------------------------------------------------------------
(* compute_principal_strains, lines 260-285, in exact arithmetic.  A square   *)
(* root is kept by its square; its value is given when it is rational.        *)

IsSquare(n) == \E r \in 0 .. n : r * r = n

IntRoot(n) == CHOOSE r \in 0 .. n : r * r = n

\* np.sqrt(q)/2 of a rational q >= 0
HalfSqrt(q) ==
    IF IsSquare(q[1]) /\ IsSquare(q[2])
    THEN [sq |-> RMul(q, Rat(1, 4)), exact |-> TRUE,
          value |-> Rat(IntRoot(q[1]), 2 * IntRoot(q[2]))]
    ELSE [sq |-> RMul(q, Rat(1, 4)), exact |-> FALSE, value |-> RInt(0)]

RSquare(x) == RMul(x, x)

\* line 285, first result: the sum of the two roots, with its sign
StrainSum(tr, anti) ==
    [exact |-> tr.exact /\ anti.exact,
     value |-> IF tr.exact /\ anti.exact THEN RAdd(tr.value, anti.value) ELSE RInt(0),
     positive |-> RLess(RInt(0), tr.sq) \/ RLess(RInt(0), anti.sq)]

\* line 285, second result: the difference of the two roots, with its sign
StrainDifference(tr, anti) ==
    [exact |-> tr.exact /\ anti.exact,
     value |-> IF tr.exact /\ anti.exact THEN RSub(tr.value, anti.value) ELSE RInt(0),
     positive |-> RLess(anti.sq, tr.sq)]

\* lines 273-276: (east - west)/(dLambda[i]/cell_scales)
F_lambda(positions, cell, scale, dphi, dlam) ==
    LET west == positions[cell[4]]
        east == positions[cell[5]]
        step == RDiv(dlam[cell[2]], scale)
    IN  <<RDiv(RSub(east[1], west[1]), step), RDiv(RSub(east[2], west[2]), step)>>

\* F_phi dividing by the spacing inside the row instead of the spacing of the rows
F_phiByLambda(positions, cell, scale, dphi, dlam) ==
    LET south == positions[cell[6]]
        north == positions[cell[7]]
        step == RDiv(dlam[cell[2]], scale)
    IN  <<RDiv(RSub(north[1], south[1]), step), RDiv(RSub(north[2], south[2]), step)>>

\* lines 278-281: (north - south)/(dPhi[i]/cell_scales)
F_phi(positions, cell, scale, dphi, dlam) ==
    LET south == positions[cell[6]]
        north == positions[cell[7]]
        step == RDiv(dphi[cell[2]], scale)
    IN  <<RDiv(RSub(north[1], south[1]), step), RDiv(RSub(north[2], south[2]), step)>>

\* line 283
TraceOf(FL, FP) ==
    HalfSqrt(RAdd(RSquare(RAdd(FL[1], FP[2])), RSquare(RSub(FP[1], FL[2]))))

\* line 284
AntitraceOf(FL, FP) ==
    HalfSqrt(RAdd(RSquare(RSub(FL[1], FP[2])), RSquare(RAdd(FP[1], FL[2]))))

\* lines 260-285: per cell, the two roots and the two strains
compute_principal_strains(positions, cells, scls, dphi, dlam) ==
    [k \in DOMAIN cells |->
        CHOOSE r \in
            {[trace |-> tr, antitrace |-> anti,
              a |-> StrainSum(tr, anti), b |-> StrainDifference(tr, anti)] :
                tr \in {TraceOf(F_lambda(positions, cells[k], scls[k], dphi, dlam),
                                F_phi(positions, cells[k], scls[k], dphi, dlam))},
                anti \in {AntitraceOf(F_lambda(positions, cells[k], scls[k], dphi, dlam),
                                      F_phi(positions, cells[k], scls[k], dphi, dlam))}} : TRUE]

\* a fully defined one-section table, its nodes numbered in scan order
StrainTable == MaskedGrid(GridRows, GridCols, {})

\* the cells enumerate_cells makes of a table
CellsOf(tbl) ==
    LET kept == KeptCells(FirstOfTuple(tbl, Candidates(tbl)))
        cells == SortedCells(kept, CornerPlaces(kept))
    IN  [k \in DOMAIN cells |-> cells[k].definition]

\* per row spacings: the same in every row, or alternating
Spacings(R) ==
    {[i \in Range(R) |-> RInt(c)] : c \in 1 .. MaxSpacing}
    \cup {[i \in Range(R) |-> RInt(1 + (i % 2))]}

\* node positions: the node of row i and column j at (x, y)
Layout(tbl, x(_, _), y(_, _)) ==
    [n \in Range(NFull(tbl)) |->
        LET p == CHOOSE q \in TablePositions(tbl) : tbl.at[q] = n
        IN  <<x(p[2], p[3]), y(p[2], p[3])>>]

\* the planar identity in the units of row 0, and mirrored, unscaled, sheared and
\* transposed maps
Layouts(tbl, dphi, dlam) ==
    LET east(i, j) == RMul(RInt(j), dlam[0])
        north(i, j) == RMul(RInt(i), dphi[0])
        west(i, j) == RMul(RInt(-j), dlam[0])
        column(i, j) == RInt(j)
        row(i, j) == RInt(i)
        slanted(i, j) == RAdd(RMul(RInt(j), dlam[0]), RInt(i))
    IN  {Layout(tbl, east, north), Layout(tbl, west, north), Layout(tbl, column, row),
         Layout(tbl, slanted, north), Layout(tbl, north, east)}

StrainInit ==
    /\ component = "strains" /\ pc = "start"
    /\ cell_definitions = CellsOf(StrainTable)
    /\ dPhi \in Spacings(GridRows)
    /\ dLambda \in Spacings(GridRows)
    /\ node_positions \in Layouts(StrainTable, dPhi, dLambda)
    /\ \E c \in 1 .. MaxScale : cell_scales = [k \in DOMAIN cell_definitions |-> RInt(c)]
    /\ mesh = <<>> /\ unique_rows = <<>> /\ node_indices = <<>>
    /\ values = <<>> /\ scales = <<>> /\ cell_weights = <<>>
    /\ trace = <<>> /\ antitrace = <<>> /\ strain_a = <<>> /\ strain_b = <<>>
    /\ weights = <<>> /\ energy = NoEnergy
    /\ SkeletonIdle
    /\ DriverIdle

\* lines 260-285
PrincipalStrainsCall ==
    /\ component = "strains" /\ pc = "start"
    /\ \E r \in {compute_principal_strains(node_positions, cell_definitions, cell_scales,
                                           dPhi, dLambda)} :
           /\ trace' = [k \in DOMAIN r |-> r[k].trace]
           /\ antitrace' = [k \in DOMAIN r |-> r[k].antitrace]
           /\ strain_a' = [k \in DOMAIN r |-> r[k].a]
           /\ strain_b' = [k \in DOMAIN r |-> r[k].b]
    /\ pc' = "returned"
    /\ UNCHANGED <<component, weights, energy, dPhi, dLambda, skel_vars, enum_vars,
                   driver_vars>>

StrainNext == PrincipalStrainsCall

StrainSpec == StrainInit /\ [][StrainNext]_vars

StrainsReturned == component = "strains" /\ pc = "returned"

\* the positions are the planar identity for cell k: east - west is the spacing
\* inside the cell's row along x, north - south the spacing of the rows along y,
\* and the cell's scale is 1
IdentityAt(k) ==
    LET cell == cell_definitions[k]
        west == node_positions[cell[4]]
        east == node_positions[cell[5]]
        south == node_positions[cell[6]]
        north == node_positions[cell[7]]
    IN  /\ RSub(east[1], west[1]) = dLambda[cell[2]] /\ east[2] = west[2]
        /\ RSub(north[2], south[2]) = dPhi[cell[2]] /\ north[1] = south[1]
        /\ cell_scales[k] = RInt(1)

\* C18: for node positions given by the identity planar mapping (east - west is
\* the column spacing and north - south the row spacing of the cell's row, in the
\* matching axis, with cell scale 1) compute_principal_strains returns major
\* strain 1 and minor strain 1 for every cell.
IdentityMappingUnstrained ==
    (StrainsReturned /\ \A k \in DOMAIN cell_definitions : IdentityAt(k)) =>
        \A k \in DOMAIN cell_definitions :
            /\ strain_a[k].exact /\ strain_a[k].value = RInt(1)
            /\ strain_b[k].exact /\ strain_b[k].value = RInt(1)

\* the strains of the planar identity were computed, with rows further apart than
\* the nodes inside a row
IdentityMappingEvaluated ==
    /\ StrainsReturned
    /\ cell_definitions # <<>>
    /\ \A k \in DOMAIN cell_definitions : IdentityAt(k)
    /\ RLess(dLambda[0], dPhi[0])



-----------------------------------------------------------------------------
(* create_map_projection, lines 474-588.  Python lists (progression,           *)
(* transformations) and the record of the steps taken are sequences; node      *)
(* positions are exact rationals from enumerate_nodes on.                      *)

RECURSIVE Pow(_, _)
Pow(b, e) == IF e = 0 THEN 1 ELSE b * Pow(b, e - 1)

\* line 482: int(math.log2(size/10)), the logarithm cut off towards zero
IntLog2Tenths(size) ==
    IF size >= 10 THEN SetMax({e \in 0 .. size : 10 * Pow(2, e) <= size})
    ELSE -SetMax({e \in 0 .. 10 : size * Pow(2, e) <= 10})

\* line 481: np.ceil of element k of np.geomspace(size/10, 1., num), the least
\* integer c with c >= (size/10)^((num-1-k)/(num-1)); the only element when num = 1
\* is size/10 itself
CeilGeomspace(size, num, k) ==
    IF num = 1 THEN (size + 9) \div 10
    ELSE SetMin({c \in 1 .. size :
                    Pow(c, num - 1) * Pow(10, num - 1 - k) >= Pow(size, num - 1 - k)})

\* lines 481-482, for a num that np.geomspace accepts
ProgressionOf(size) ==
    [k \in 1 .. IntLog2Tenths(size) + 1 |->
        CeilGeomspace(size, IntLog2Tenths(size) + 1, k - 1)]

\* util.py lines 28-34
Scalar(value) == [kind |-> "scalar", value |-> value, rows |-> <<>>]

\* what mesh_skeleton returns, lines 253-257
Reduction(rows) == [kind |-> "reduction", value |-> 0, rows |-> rows]

Restoration(rows) == [kind |-> "restoration", value |-> 0, rows |-> rows]

\* Scalar.__matmul__ that adds its value instead
ScalarMatMulAdding(value, other) ==
    [k \in DOMAIN other |->
        <<RAdd(RInt(value), other[k][1]), RAdd(RInt(value), other[k][2])>>]

\* util.py line 34: self.value * other
ScalarMatMul(value, other) ==
    [k \in DOMAIN other |->
        <<RMul(RInt(value), other[k][1]), RMul(RInt(value), other[k][2])>>]

\* op @ v, by the class of op
MatMul(op, v) ==
    CASE op.kind = "scalar" -> ScalarMatMul(op.value, v)
      [] op.kind = "reduction" -> MatMulReduce(op.rows, v)
      [] OTHER -> MatMulRestore(op.rows, v)

\* the positions enumerate_nodes returns, as exact numbers
ExactPositions(rows) == [k \in DOMAIN rows |-> <<RInt(rows[k][1][1]), RInt(rows[k][2][1])>>]

\* np.sqrt of the scale raster of the "uniform" configuration, 1.0 everywhere
UniformScales(cscales) == [k \in DOMAIN cscales |-> RInt(1)]

\* the test of lines 563-564 that looks at the major strain only
MajorStrainsPositive(strains) == \A k \in DOMAIN strains : strains[k].a.positive

\* lines 563-564: np.all(np.greater(compute_principal_strains(...), 0))
AllStrainsPositive(strains) ==
    \A k \in DOMAIN strains : strains[k].a.positive /\ strains[k].b.positive

\* the mirror image of a position vector
Mirrored(v) == [k \in DOMAIN v |-> <<RSub(RInt(0), v[k][1]), v[k][2]>>]

\* a position vector with every node at the origin
Collapsed(v) == [k \in DOMAIN v |-> <<RInt(0), RInt(0)>>]

\* the vectors minimize may return for a guess: the guess, its mirror image (every
\* cell folded over: a minor strain below 0), or all nodes at one point (every
\* strain 0)
MinimizerResults(guess) == {guess, Mirrored(guess), Collapsed(guess)}

\* line 580: node_positions[node_indices, :]
Gather(positions, indices) == [p \in DOMAIN indices |-> PyIndex(positions, indices[p])]

\* line 581 left out
MaskNothing(out, indices) == out

\* line 581: mesh[node_indices == -1, :] = np.nan
MaskAbsent(out, indices) ==
    [p \in DOMAIN out |-> IF indices[p] = -1 THEN AbsentPoint ELSE out[p]]

\* a mesh with a pole whose last entry is absent; two sections share a column
PoleMesh(H, R) ==
    MeshOfSize(H, R, GridCols, GridCols - 1, TRUE, {<<H - 1, R - 1, GridCols - 1>>})

\* a mesh without an absent entry
CompleteMesh == MeshOfSize(1, GridRows, GridCols, 0, FALSE, {})

\* a 12-row mesh whose rows 5 and 6 are the same points
CreasedMesh ==
    [sections |-> 1, rows |-> 12, cols |-> GridCols,
     at |-> [p \in Positions(1, 12, GridCols) |->
                IF p = <<0, 11, GridCols - 1>> THEN AbsentPoint
                ELSE MeshPoint(<<0, IF p[2] >= 6 THEN p[2] - 1 ELSE p[2], p[3]>>,
                               0, FALSE)]]

DriverMeshes ==
    {PoleMesh(1, 2), PoleMesh(2, GridRows), PoleMesh(1, 12), PoleMesh(1, MaxRows),
     CompleteMesh, CreasedMesh}

\* 2/cos of the latitudes of the rows: larger at the first and the last row
DriverLatitudes(R) == [i \in Range(R) |-> IF i = 0 \/ i = R - 1 THEN MaxSec2 ELSE 2]

DriverInit ==
    /\ component = "create_map_projection" /\ pc = "start"
    /\ caller = "none"
    /\ mesh \in DriverMeshes
    /\ latitudes = DriverLatitudes(mesh.rows)
    /\ dPhi = [i \in Range(mesh.rows) |-> RInt(1)]
    /\ dLambda = [i \in Range(mesh.rows) |-> RInt(1)]
    /\ progression = <<>> /\ transformations = <<>> /\ level = 0
    /\ history = <<>> /\ saved = <<>>
    /\ unique_rows = <<>> /\ node_positions = <<>>
    /\ node_indices = <<>> /\ values = <<>> /\ scales = <<>>
    /\ cell_definitions = <<>> /\ cell_weights = <<>> /\ cell_scales = <<>>
    /\ trace = <<>> /\ antitrace = <<>> /\ strain_a = <<>> /\ strain_b = <<>>
    /\ weights = <<>> /\ energy = NoEnergy
    /\ SkeletonIdle

InDriver == component = "create_map_projection"

\* line 474, enumerate_nodes returning
EnumerateNodesReturns ==
    /\ InDriver /\ pc = "start"
    /\ \E rows \in {Flatten(mesh)} :
       \E place \in {SortedPlaces(rows)} :
       \E unique \in {UniqueRows(rows, place)} :
           /\ NanPlaces(unique) # {}
           /\ unique_rows' = unique
           /\ node_positions' =
                  ExactPositions(CutPositions(unique, SetMin(NanPlaces(unique))))
           /\ node_indices' =
                  CutIndices(UniqueInverse(mesh, place), SetMin(NanPlaces(unique)))
    /\ pc' = "nodes"
    /\ UNCHANGED <<component, mesh, values, scales, cell_definitions, cell_weights,
                   cell_scales, skel_vars, energy_vars, driver_vars>>

\* line 474, enumerate_nodes raising at its line 94
EnumerateNodesIndexError ==
    /\ InDriver /\ pc = "start"
    /\ \E rows \in {Flatten(mesh)} :
           NanPlaces(UniqueRows(rows, SortedPlaces(rows))) = {}
    /\ pc' = "IndexError"
    /\ UNCHANGED <<component, enum_vars, skel_vars, energy_vars, driver_vars>>

\* line 477, with the rasters of the "uniform" configuration (lines 300-301)
EnumerateCellsCall ==
    /\ InDriver /\ pc = "nodes"
    /\ \E r \in {Resampled([h \in Range(mesh.sections) |-> Loaded(<<>>)],
                           [h \in Range(mesh.sections) |-> Loaded(<<>>)],
                           GridShape(NodeTable))} :
       \E cands \in {Candidates(NodeTable)} :
       \E kept \in {KeptCells(FirstOfTuple(NodeTable, cands))} :
       \E place \in {CornerPlaces(kept)} :
       \E cells \in {SortedCells(kept, place)} :
           /\ values' = r.values
           /\ scales' = r.scales
           /\ cell_definitions' = [k \in DOMAIN cells |-> cells[k].definition]
           /\ cell_weights' = [k \in DOMAIN cells |->
                                  [A_1_row |-> cells[k].node1_i,
                                   A_2_row |-> cells[k].node2_i,
                                   value_at |-> <<cells[k].h, cells[k].i, cells[k].j>>,
                                   value_of |-> r.values[cells[k].h]]]
           /\ cell_scales' = [k \in DOMAIN cells |->
                                 [scale_at |-> <<cells[k].h, cells[k].i, cells[k].j>>,
                                  scale_of |-> r.scales[cells[k].h]]]
    /\ pc' = "cells"
    /\ UNCHANGED <<component, mesh, unique_rows, node_positions, node_indices,
                   skel_vars, energy_vars, driver_vars>>

\* lines 480-482
BuildProgression ==
    /\ InDriver /\ pc = "cells"
    /\ IntLog2Tenths(mesh.rows) + 1 >= 0
    /\ progression' = ProgressionOf(mesh.rows)
    /\ transformations' = <<>>
    /\ level' = 0
    /\ pc' = "schedule"
    /\ UNCHANGED <<component, caller, latitudes, history, saved, enum_vars, skel_vars,
                   energy_vars>>

\* line 481: np.geomspace refuses a negative number of samples
GeomspaceValueError ==
    /\ InDriver /\ pc = "cells"
    /\ IntLog2Tenths(mesh.rows) + 1 < 0
    /\ pc' = "ValueError"
    /\ UNCHANGED <<component, enum_vars, skel_vars, energy_vars, driver_vars>>

\* lines 483-484: the next factor, and mesh_skeleton entered with fresh locals
CallMeshSkeleton ==
    /\ InDriver /\ pc = "schedule"
    /\ level < Len(progression)
    /\ component' = "mesh_skeleton"
    /\ caller' = "create_map_projection"
    /\ pc' = "start"
    /\ lookup_table' = NodeTable
    /\ factor' = progression[level + 1]
    /\ sec2' = latitudes
    /\ east_neibor' = <<>> /\ west_neibor' = <<>>
    /\ north_neibor' = <<>> /\ south_neibor' = <<>>
    /\ has_defined_neibors' = <<>> /\ is_defined' = <<>> /\ reindex' = <<>>
    /\ walk' = "none" /\ state' = <<>> /\ distance_traveld' = <<>> /\ arrived' = <<>>
    /\ reference' = NoArrays /\ distance' = NoArrays
    /\ defining_indices' = <<>> /\ defining_weits' = <<>>
    /\ reduction' = <<>> /\ restoration' = <<>>
    /\ UNCHANGED <<latitudes, progression, transformations, level, history, saved,
                   enum_vars, energy_vars>>

\* line 484: mesh_skeleton has returned, its pair is appended
ReturnMeshSkeleton ==
    /\ component = "mesh_skeleton" /\ pc = "done"
    /\ caller = "create_map_projection"
    /\ transformations' =
           Append(transformations, <<Reduction(reduction), Restoration(restoration)>>)
    /\ level' = level + 1
    /\ component' = "create_map_projection"
    /\ caller' = "none"
    /\ pc' = "schedule"
    /\ UNCHANGED <<latitudes, progression, history, saved, skel_vars, enum_vars,
                   energy_vars>>

\* line 485
AppendIdentity ==
    /\ InDriver /\ pc = "schedule"
    /\ level = Len(progression)
    /\ transformations' = Append(transformations, <<Scalar(1), Scalar(1)>>)
    /\ level' = 0
    /\ pc' = "reduce"
    /\ UNCHANGED <<component, caller, latitudes, progression, history, saved,
                   enum_vars, skel_vars, energy_vars>>

\* the pair that every iteration of line 552 binds to reduce, restore: the first
LevelPairFirst(k) == transformations[1]

\* line 552: the pair that iteration k binds to reduce, restore
LevelPair(k) == transformations[k + 1]

Step(name, input, output) ==
    [step |-> name, level |-> level, func |-> "", backup_func |-> "",
     input |-> input, output |-> output, raised |-> FALSE]

MinimizeCall(name, backup, guess, result, raised) ==
    [step |-> name, level |-> level, func |-> "compute_energy_strict",
     backup_func |-> backup, input |-> guess, output |-> result, raised |-> raised]

\* lines 552-553
ReduceStep ==
    /\ InDriver /\ pc = "reduce"
    /\ level < Len(transformations)
    /\ \E reduced \in {MatMul(LevelPair(level)[1], node_positions)} :
           /\ node_positions' = reduced
           /\ history' = Append(history, Step("reduce", node_positions, reduced))
    /\ pc' = "minimize"
    /\ UNCHANGED <<component, caller, latitudes, progression, transformations, level,
                   saved, mesh, unique_rows, node_indices, values, scales,
                   cell_definitions, cell_weights, cell_scales, skel_vars, energy_vars>>

\* lines 554-559, minimize returning
MinimizeReturns ==
    /\ InDriver /\ pc = "minimize"
    /\ \E result \in MinimizerResults(node_positions) :
           /\ node_positions' = result
           /\ history' = Append(history,
                  MinimizeCall("minimize", "compute_energy_lenient", node_positions,
                               result, FALSE))
    /\ pc' = "restore"
    /\ UNCHANGED <<component, caller, latitudes, progression, transformations, level,
                   saved, mesh, unique_rows, node_indices, values, scales,
                   cell_definitions, cell_weights, cell_scales, skel_vars, energy_vars>>

\* minimize raising RuntimeError in the loop, answered with the pass of lines 566-571
MinimizeRaisesEscalating ==
    /\ InDriver /\ pc = "minimize"
    /\ history' = Append(history,
           MinimizeCall("minimize", "compute_energy_lenient", node_positions, <<>>, TRUE))
    /\ pc' = "final"
    /\ UNCHANGED <<component, caller, latitudes, progression, transformations, level,
                   saved, enum_vars, skel_vars, energy_vars>>

\* lines 554-559 and 573-577: minimize raising RuntimeError, which is shown and
\* raised again
MinimizeRaises ==
    /\ InDriver /\ pc = "minimize"
    /\ history' = Append(history,
           MinimizeCall("minimize", "compute_energy_lenient", node_positions, <<>>, TRUE))
    /\ pc' = "RuntimeError"
    /\ UNCHANGED <<component, caller, latitudes, progression, transformations, level,
                   saved, enum_vars, skel_vars, energy_vars>>

\* line 560, and the loop going on or ending
RestoreStep ==
    /\ InDriver /\ pc = "restore"
    /\ \E restored \in {MatMul(LevelPair(level)[2], node_positions)} :
           /\ node_positions' = restored
           /\ history' = Append(history, Step("restore", node_positions, restored))
    /\ level' = level + 1
    /\ pc' = IF level + 1 < Len(transformations) THEN "reduce" ELSE "check"
    /\ UNCHANGED <<component, caller, latitudes, progression, transformations,
                   saved, mesh, unique_rows, node_indices, values, scales,
                   cell_definitions, cell_weights, cell_scales, skel_vars, energy_vars>>

\* lines 563-564
CheckStrains ==
    /\ InDriver /\ pc = "check"
    /\ \E strains \in {compute_principal_strains(node_positions, cell_definitions,
                           UniformScales(cell_scales), dPhi, dLambda)} :
           pc' = IF AllStrainsPositive(strains) THEN "scatter" ELSE "final"
    /\ UNCHANGED <<component, enum_vars, skel_vars, energy_vars, driver_vars>>

\* lines 566-571, minimize returning
FinalMinimizeReturns ==
    /\ InDriver /\ pc = "final"
    /\ \E result \in MinimizerResults(node_positions) :
           /\ node_positions' = result
           /\ history' = Append(history,
                  MinimizeCall("final", "compute_energy_aggressive", node_positions,
                               result, FALSE))
    /\ pc' = "scatter"
    /\ UNCHANGED <<component, caller, latitudes, progression, transformations, level,
                   saved, mesh, unique_rows, node_indices, values, scales,
                   cell_definitions, cell_weights, cell_scales, skel_vars, energy_vars>>

\* minimize raising RuntimeError in the last pass, and the driver going on
FinalMinimizeRaisesSwallowed ==
    /\ InDriver /\ pc = "final"
    /\ history' = Append(history,
           MinimizeCall("final", "compute_energy_aggressive", node_positions, <<>>, TRUE))
    /\ pc' = "scatter"
    /\ UNCHANGED <<component, caller, latitudes, progression, transformations, level,
                   saved, enum_vars, skel_vars, energy_vars>>

\* lines 566-571 and 573-577
FinalMinimizeRaises ==
    /\ InDriver /\ pc = "final"
    /\ history' = Append(history,
           MinimizeCall("final", "compute_energy_aggressive", node_positions, <<>>, TRUE))
    /\ pc' = "RuntimeError"
    /\ UNCHANGED <<component, caller, latitudes, progression, transformations, level,
                   saved, enum_vars, skel_vars, energy_vars>>

\* the scatter of lines 580-581 that also writes 0 over the -1 of the lookup table
ScatterMeshOverLookup ==
    /\ InDriver /\ pc = "scatter"
    /\ mesh' = [mesh EXCEPT !.at = MaskAbsent(Gather(node_positions, node_indices),
                                              node_indices)]
    /\ node_indices' = [p \in DOMAIN node_indices |->
                            IF node_indices[p] = -1 THEN 0 ELSE node_indices[p]]
    /\ pc' = "save"
    /\ UNCHANGED <<component, unique_rows, node_positions, values, scales,
                   cell_definitions, cell_weights, cell_scales, skel_vars, energy_vars,
                   driver_vars>>

\* lines 580-581: the name mesh now holds the output
ScatterMesh ==
    /\ InDriver /\ pc = "scatter"
    /\ mesh' = [mesh EXCEPT !.at = MaskAbsent(Gather(node_positions, node_indices),
                                              node_indices)]
    /\ pc' = "save"
    /\ UNCHANGED <<component, unique_rows, node_positions, node_indices, values, scales,
                   cell_definitions, cell_weights, cell_scales, skel_vars, energy_vars,
                   driver_vars>>

\* lines 584-586
SaveMesh ==
    /\ InDriver /\ pc = "save"
    /\ saved' = mesh
    /\ pc' = "saved"
    /\ UNCHANGED <<component, caller, latitudes, progression, transformations, level,
                   history, enum_vars, skel_vars, energy_vars>>

DriverNext ==
    \/ EnumerateNodesReturns \/ EnumerateNodesIndexError \/ EnumerateCellsCall
    \/ BuildProgression \/ GeomspaceValueError
    \/ CallMeshSkeleton
    \/ MarkAnchors \/ MarkNodes \/ FollowStep \/ FollowRaise \/ FollowReturn
    \/ BuildOperators
    \/ ReturnMeshSkeleton \/ AppendIdentity
    \/ ReduceStep \/ MinimizeReturns \/ MinimizeRaises \/ RestoreStep
    \/ CheckStrains \/ FinalMinimizeReturns \/ FinalMinimizeRaises
    \/ ScatterMesh \/ SaveMesh

DriverSpec == DriverInit /\ [][DriverNext]_vars


-----------------------------------------------------------------------------
(* The schedule and the loop of create_map_projection *)

\* line 485 has run
ScheduleBuilt ==
    /\ InDriver
    /\ pc \in {"reduce", "minimize", "restore", "check", "final", "scatter", "save",
               "saved", "RuntimeError"}

\* the number of nodes enumerate_nodes found
NodeCount == Cardinality({node_indices[p] : p \in DOMAIN node_indices} \ {-1})

Events == 1 .. Len(history)

LastLevel == Len(transformations) - 1

\* C16: once the driver has built its schedule, the schedule is one pair longer
\* than the factor progression (which may be empty) and its last pair is
\* (Scalar(1), Scalar(1)); at that last level the reduce step and the restore step
\* hand back their argument unchanged, the minimizer is given a vector with one
\* entry per node, and the vector after the last level has one entry per node.
ScheduleEndsWithIdentity ==
    ScheduleBuilt =>
        /\ Len(transformations) = Len(progression) + 1
        /\ transformations[Len(transformations)] = <<Scalar(1), Scalar(1)>>
        /\ \A e \in Events :
               history[e].level = LastLevel =>
                   /\ history[e].step \in {"reduce", "restore"} =>
                          history[e].output = history[e].input
                   /\ history[e].step = "minimize" =>
                          DOMAIN history[e].input = Range(NodeCount)
        /\ pc \in {"check", "final", "scatter", "save", "saved"} =>
               DOMAIN node_positions = Range(NodeCount)

\* the only level of an empty progression has run
IdentityLevelOfEmptyProgression ==
    /\ ScheduleBuilt
    /\ pc = "check"
    /\ progression = <<>>
    /\ \E e \in Events : history[e].level = LastLevel /\ history[e].step = "restore"


\* the steps of the loop of lines 552-560 that have been taken
LoopEvents == {e \in Events : history[e].step # "final"}

\* the positions the loop starts from: those enumerate_nodes returned
EnumeratedPositions ==
    ExactPositions(CutPositions(unique_rows, SetMin(NanPlaces(unique_rows))))

\* C12: the steps of the level loop are, in this order, reduce, minimize and
\* restore of level 0, then of level 1, and so on, each level once and all of them
\* when the loop has ended; every minimizer call of the loop has the strict
\* objective as primary and the lenient one as fallback; each step works on what
\* the step before it produced (the first on the enumerated positions), reduce and
\* restore applying the operators of their own level, so that level k+1 starts from
\* reduce_{k+1} @ (restore_k @ result_k).
LevelsRunInScheduleOrder ==
    ScheduleBuilt =>
        /\ \A e \in LoopEvents :
               /\ \A d \in 1 .. e : d \in LoopEvents
               /\ history[e].level = (e - 1) \div 3
               /\ history[e].step = <<"reduce", "minimize", "restore">>[((e - 1) % 3) + 1]
               /\ history[e].input = IF e = 1 THEN EnumeratedPositions
                                     ELSE history[e - 1].output
               /\ history[e].step = "reduce" =>
                      history[e].output =
                          MatMul(transformations[history[e].level + 1][1], history[e].input)
               /\ history[e].step = "restore" =>
                      history[e].output =
                          MatMul(transformations[history[e].level + 1][2], history[e].input)
               /\ history[e].step = "minimize" =>
                      /\ history[e].func = "compute_energy_strict"
                      /\ history[e].backup_func = "compute_energy_lenient"
        /\ \A e \in LoopEvents :
               (e >= 4 /\ history[e].step = "reduce") =>
                   history[e].output =
                       MatMul(transformations[history[e].level + 1][1],
                              MatMul(transformations[history[e].level][2],
                                     history[e - 2].output))
        /\ pc \in {"check", "final", "scatter", "save", "saved"} =>
               Cardinality(LoopEvents) = 3 * Len(transformations)
        /\ pc \in {"reduce", "minimize", "restore"} =>
               Cardinality(LoopEvents) =
                   3 * level + (CASE pc = "reduce" -> 0 [] pc = "minimize" -> 1 [] OTHER -> 2)

\* the loop has ended after three levels, the first of them a proper reduction
ThreeLevelsRun ==
    /\ ScheduleBuilt
    /\ pc = "check"
    /\ Len(transformations) = 3
    /\ Cardinality(DOMAIN transformations[1][1].rows) < NodeCount
    /\ history[2].output # history[2].input


-----------------------------------------------------------------------------
(* The pass with the aggressive objective *)

FinalEvents == {e \in Events : history[e].step = "final"}

\* some cell of the mesh has a major or a minor strain that is zero or negative
SomeStrainNotPositive(positions) ==
    \E strains \in {compute_principal_strains(positions, cell_definitions,
                        UniformScales(cell_scales), dPhi, dLambda)} :
        \E k \in DOMAIN strains : ~strains[k].a.positive \/ ~strains[k].b.positive

\* C13: no minimizer call of the level loop is given the aggressive objective; at
\* most one call is made after the loop, it comes after the steps of all levels,
\* has the strict objective as primary and the aggressive one as fallback, and its
\* guess is the full vector the loop ended with, in which some cell has a strain
\* <= 0; and when the driver goes on to scatter without that call, no cell of the
\* vector the loop ended with has a strain <= 0.
AggressivePassIffStrainNotPositive ==
    ScheduleBuilt =>
        /\ \A e \in LoopEvents : history[e].backup_func # "compute_energy_aggressive"
        /\ Cardinality(FinalEvents) <= 1
        /\ \A e \in FinalEvents :
               /\ e = 3 * Len(transformations) + 1
               /\ history[e].func = "compute_energy_strict"
               /\ history[e].backup_func = "compute_energy_aggressive"
               /\ history[e].input = history[e - 1].output
               /\ DOMAIN history[e].input = Range(NodeCount)
               /\ SomeStrainNotPositive(history[e].input)
        /\ pc = "final" => FinalEvents = {} /\ SomeStrainNotPositive(node_positions)
        /\ (pc \in {"scatter", "save", "saved"} /\ FinalEvents = {}) =>
               ~SomeStrainNotPositive(node_positions)

\* the pass was made on a folded mesh and returned
AggressivePassMade ==
    /\ ScheduleBuilt
    /\ pc = "scatter"
    /\ \E e \in FinalEvents : ~history[e].raised


-----------------------------------------------------------------------------
(* The minimizer failing to converge *)

\* the minimizer calls that raised RuntimeError
FailedCalls == {e \in Events : history[e].raised}

\* C14, as stated: when a minimizer call of a hierarchy level has failed and the
\* failure is propagated, the pass with the aggressive objective has been made
\* before.
EscalatesBeforePropagating ==
    (InDriver /\ pc = "RuntimeError") =>
        \A e \in FailedCalls : history[e].step = "minimize" => FinalEvents # {}

\* C14: when a minimizer call of a hierarchy level, which is given the strict
\* objective with the lenient one as fallback, has failed, the failure is
\* propagated and the pass with the aggressive objective has not been made.
LevelFailurePropagatesAtOnce ==
    \A e \in FailedCalls :
        history[e].step = "minimize" =>
            /\ history[e].func = "compute_energy_strict"
            /\ history[e].backup_func = "compute_energy_lenient"
            /\ InDriver /\ pc = "RuntimeError"
            /\ FinalEvents = {}

\* the minimizer failed at a level that is not the last
LevelFailed ==
    /\ InDriver /\ pc = "RuntimeError"
    /\ \E e \in FailedCalls : history[e].step = "minimize" /\ history[e].level < LastLevel

\* C15: when a minimizer call, of a level or of the last pass, has raised, the
\* driver has raised RuntimeError, the failed call is the last step it took (no call
\* or level after it), the mesh is still the one that was loaded, and nothing was
\* saved.
NonConvergencePropagates ==
    \A e \in FailedCalls :
        /\ InDriver /\ pc = "RuntimeError"
        /\ e = Len(history)
        /\ mesh \in DriverMeshes
        /\ saved = <<>>

\* the last pass failed
AggressivePassFailed ==
    /\ InDriver /\ pc = "RuntimeError"
    /\ \E e \in FailedCalls : history[e].step = "final"


-----------------------------------------------------------------------------
(* The output mesh and the lookup table *)

Scattered == InDriver /\ pc \in {"save", "saved"}

\* C17: when the driver has scattered the final positions, the output array has
\* an entry for every (section, row, column) of the input grid, the entry is the
\* absent point exactly where the lookup table holds -1 and is otherwise the final
\* position of the node the lookup table names, so that entries with the same node
\* index hold the same point; and this array is what save_mesh is given.
OutputScatteredByLookup ==
    Scattered =>
        /\ DOMAIN mesh.at = Positions(mesh.sections, mesh.rows, mesh.cols)
        /\ DOMAIN mesh.at = DOMAIN node_indices
        /\ \A p \in DOMAIN mesh.at :
               /\ mesh.at[p] = AbsentPoint <=> node_indices[p] = -1
               /\ node_indices[p] # -1 => mesh.at[p] = node_positions[node_indices[p]]
        /\ \A p, q \in DOMAIN mesh.at :
               node_indices[p] = node_indices[q] => mesh.at[p] = mesh.at[q]
        /\ pc = "saved" => saved = mesh

\* a mesh with an absent entry and with two entries of one node, which the
\* minimizer has moved, was scattered and saved
SharedNodeScattered ==
    /\ InDriver /\ pc = "saved"
    /\ \E p \in DOMAIN node_indices : node_indices[p] = -1
    /\ \E p, q \in DOMAIN node_indices :
           p # q /\ node_indices[p] = node_indices[q] /\ node_indices[p] # -1
    /\ node_positions # EnumeratedPositions

\* enumerate_nodes has returned to the driver
LookupTableBuilt == node_indices # <<>>

\* C19: once enumerate_nodes has returned the lookup table, no step of the driver
\* (enumerate_cells, the schedule, every step of every mesh_skeleton call, the level
\* loop with its minimizer calls, the last pass, the scatter, the save) changes an
\* entry of it, and the table mesh_skeleton works on is that table.
LookupTableNeverChanges ==
    [][LookupTableBuilt =>
           /\ node_indices' = node_indices
           /\ component' = "mesh_skeleton" => lookup_table'.at = node_indices]_vars

\* the driver has run to its end through two mesh_skeleton calls
SavedAfterTwoSkeletons ==
    /\ InDriver /\ pc = "saved"
    /\ LookupTableBuilt
    /\ Len(transformations) = 3


-----------------------------------------------------------------------------
(* The row anchors of mesh_skeleton *)

\* the loops of lines 216-224 have run, lines 226-228 have not
AnchorsMarked == component = "mesh_skeleton" /\ pc = "anchors"

\* C23: after the marking loops of mesh_skeleton, a node is marked as a row anchor
\* (its has_defined_neibors entry is True) if and only if at some grid position
\* (h,i,j) that holds it min(i, rows-1-i) mod f = 0, and every node that appears in
\* the first or the last grid row is marked.
RowAnchorIffNearPoleMultiple ==
    AnchorsMarked =>
        /\ \A x \in Range(NFull(lookup_table)) :
               has_defined_neibors[x] <=>
                   \E p \in TablePositions(lookup_table) :
                       /\ lookup_table.at[p] = x
                       /\ Min2(p[2], lookup_table.rows - 1 - p[2]) % factor = 0
        /\ ~has_defined_neibors[NFull(lookup_table)]
        /\ \A p \in TablePositions(lookup_table) :
               (lookup_table.at[p] # -1 /\ p[2] \in {0, lookup_table.rows - 1}) =>
                   has_defined_neibors[lookup_table.at[p]]

\* the loops marked a node of an inner row and left a node unmarked
InnerRowAnchorMarked ==
    /\ AnchorsMarked
    /\ \E p \in TablePositions(lookup_table) :
           /\ lookup_table.at[p] # -1
           /\ p[2] \notin {0, lookup_table.rows - 1}
           /\ has_defined_neibors[lookup_table.at[p]]
    /\ \E x \in Range(NFull(lookup_table)) : ~has_defined_neibors[x]


-----------------------------------------------------------------------------
(* The ends of the runs of defined nodes *)

Defined(p) == p \in TablePositions(lookup_table) /\ lookup_table.at[p] # -1

\* position p ends a maximal run of defined entries along its row
EndsRowRun(p) ==
    /\ Defined(p)
    /\ ~Defined(<<p[1], p[2], p[3] - 1>>) \/ ~Defined(<<p[1], p[2], p[3] + 1>>)

\* position p ends a maximal run of defined entries along its column
EndsColumnRun(p) ==
    /\ Defined(p)
    /\ ~Defined(<<p[1], p[2] - 1, p[3]>>) \/ ~Defined(<<p[1], p[2] + 1, p[3]>>)

\* C21: once mesh_skeleton has chosen its key nodes, the node at each end of
\* every maximal run of defined entries along a row or along a column of the table
\* is a key node.
RunEndpointsAreKeys ==
    NodesMarked =>
        \A p \in TablePositions(lookup_table) :
            (EndsRowRun(p) \/ EndsColumnRun(p)) => is_defined[lookup_table.at[p]]


-----------------------------------------------------------------------------
(* The six walks of mesh_skeleton *)

Walking == component = "mesh_skeleton" /\ pc = "walk"

\* the walkers that the next iteration of follow_graph moves (line 66)
Advancing == {k \in DOMAIN state : ~arrived[k]}

RealNode(x) == x \in Range(NFull(lookup_table))

\* C24, as stated: in every walk every state is a node index in 0..n-1; a north
\* or south walk advances only from a node whose north and south neighbours both
\* exist, and an east or west walk advances only from a row-anchor whose east and
\* west neighbours both exist and are row-anchors.
WalksAdvanceAlongAnchorRows ==
    Walking =>
        /\ \A k \in DOMAIN state : RealNode(state[k])
        /\ \A k \in Advancing :
               IF walk \in {"n", "s"}
               THEN north_neibor[state[k]] # -1 /\ south_neibor[state[k]] # -1
               ELSE /\ RowAnchor(state[k])
                    /\ east_neibor[state[k]] # -1 /\ RowAnchor(east_neibor[state[k]])
                    /\ west_neibor[state[k]] # -1 /\ RowAnchor(west_neibor[state[k]])

\* C24: in every walk every state is a node index in 0..n-1; a north or south
\* walk advances only from a node whose north and south neighbours both exist, and
\* an east or west walk advances only from a node that is a row-anchor or lacks a
\* north or south neighbour and whose east and west neighbours both exist and are
\* such nodes too.
WalksNeverLeaveTheNodes ==
    Walking =>
        /\ \A k \in DOMAIN state : RealNode(state[k])
        /\ \A k \in Advancing :
               IF walk \in {"n", "s"}
               THEN north_neibor[state[k]] # -1 /\ south_neibor[state[k]] # -1
               ELSE /\ OnKeyRow(state[k])
                    /\ OnKeyRow(east_neibor[state[k]])
                    /\ OnKeyRow(west_neibor[state[k]])

\* a west walk is about to advance from a node that is on a key row only because
\* it has no north neighbour
WalkAdvancesBelowGap ==
    /\ Walking
    /\ walk = "nw"
    /\ \E k \in Advancing : ~RowAnchor(state[k]) /\ north_neibor[state[k]] = -1


-----------------------------------------------------------------------------
(* The references of the restoration operator *)

RECURSIVE Hop(_, _, _)
\* the node k neighbour steps along arr from x, or -1 when a step has no neighbour
Hop(arr, x, k) ==
    IF k = 0 \/ x = -1 THEN x ELSE Hop(arr, arr[x], k - 1)

\* ref is the first node along arr from `from` at which `until` holds, d steps away
FirstAlong(arr, from, until, ref, d) ==
    /\ d \in Nat
    /\ Hop(arr, from, d) = ref
    /\ RealNode(ref) /\ until[ref]
    /\ \A k \in 0 .. d - 1 : Hop(arr, from, k) # -1 /\ ~until[Hop(arr, from, k)]

\* C22: when mesh_skeleton returns, for every node that is no key the north and
\* the south walk stopped at the first node of its north, resp. south, chain that
\* is on a key row; its NE and NW (SE and SW) references are the first key nodes
\* along the east and the west chain from the node where the north (south) walk
\* stopped; every recorded distance is the number of steps to the reference; and
\* the four columns of its restoration row are the reduced indices of the four
\* references, each in 0..m-1.
ReferencesAreNearestKeys ==
    SkeletonDone =>
        \A x \in DOMAIN is_defined :
            ~is_defined[x] =>
                /\ FirstAlong(north_neibor, x, has_defined_neibors,
                              reference["n"][x], distance["n"][x])
                /\ FirstAlong(south_neibor, x, has_defined_neibors,
                              reference["s"][x], distance["s"][x])
                /\ FirstAlong(east_neibor, reference["n"][x], is_defined,
                              reference["ne"][x], distance["ne"][x])
                /\ FirstAlong(west_neibor, reference["n"][x], is_defined,
                              reference["nw"][x], distance["nw"][x])
                /\ FirstAlong(east_neibor, reference["s"][x], is_defined,
                              reference["se"][x], distance["se"][x])
                /\ FirstAlong(west_neibor, reference["s"][x], is_defined,
                              reference["sw"][x], distance["sw"][x])
                /\ defining_indices[x] = <<reference["ne"][x], reference["nw"][x],
                                           reference["se"][x], reference["sw"][x]>>
                /\ \A e \in 1 .. 4 :
                       /\ restoration[x][e].col = reindex[defining_indices[x][e]]
                       /\ restoration[x][e].col \in Range(Cardinality(DOMAIN reduction))

\* mesh_skeleton returned with a node whose north walk took a step and whose
\* north-east and north-west references are both one step from where it stopped
ReferencesTwoWalksAway ==
    /\ SkeletonDone
    /\ \E x \in DOMAIN is_defined :
           /\ ~is_defined[x]
           /\ distance["n"][x] >= 1
           /\ distance["ne"][x] >= 1
           /\ distance["nw"][x] >= 1

\* ---------------------------------------------------------------------------
\* C25: on the strains for which the strict energy is +inf, the lenient energy
\* is finite and the aggressive energy is finite or +inf, never -inf.
StrictInfiniteHere ==
    /\ component = "energy" /\ pc \in {"aggressive", "lenient"}
    /\ compute_energy_strict(strain_a, strain_b, weights) = PosInf

FallbacksUsableWhereStrictInfinite ==
    StrictInfiniteHere =>
        /\ pc = "lenient" => energy.kind = "finite"
        /\ pc = "aggressive" => energy # NegInf /\ energy.kind \in {"finite", "inf"}

\* the lenient energy of two cells, one unfolded and one folded
LenientWhereStrictInfinite ==
    /\ StrictInfiniteHere /\ pc = "lenient"
    /\ \E k \in DOMAIN strain_a : strain_a[k] > 0 /\ strain_b[k] > 0
    /\ \E k \in DOMAIN strain_a : strain_a[k] > 0 /\ ~(strain_b[k] > 0)

\* ---------------------------------------------------------------------------
\* C26: on a fully defined single-section lookup table whose node indices are all
\* different, restore @ (reduce @ p) equals p at every node, key or not, for
\* every position vector p that is an affine function of the row and column of
\* the node, whatever the factor and the per-row column strides.
FullyDefinedGrid ==
    /\ lookup_table.sections = 1
    /\ \A p \in TablePositions(lookup_table) : lookup_table.at[p] # -1
    /\ \A p, q \in TablePositions(lookup_table) :
           lookup_table.at[p] = lookup_table.at[q] => p = q

\* the table position of node x
PositionOf(x) == CHOOSE p \in TablePositions(lookup_table) : lookup_table.at[p] = x

\* the coefficients (a, b, c) of the affine functions a*i + b*j + c tried
AffineCoefficients ==
    (-MaxFactor .. MaxFactor) \X (-MaxFactor .. MaxFactor) \X (0 .. MaxFactor)

\* the position vector whose first coordinate is a*i + b*j + c and whose second
\* coordinate is b*i - a*j - c at the node of row i and column j
AffineVector(D, k) ==
    [x \in D |-> Point(k[1] * PositionOf(x)[2] + k[2] * PositionOf(x)[3] + k[3],
                       k[2] * PositionOf(x)[2] - k[1] * PositionOf(x)[3] - k[3])]

RestoreExactOnAffine ==
    (SkeletonDone /\ FullyDefinedGrid) =>
        \A k \in AffineCoefficients :
            \A p \in {AffineVector(DOMAIN is_defined, k)} :
                MatMulRestore(restoration, MatMulReduce(reduction, p)) = p

\* mesh_skeleton returned on a fully defined grid with a node that is restored
\* from four different key nodes at unequal distances
AffineRestoredFromFourKeys ==
    /\ SkeletonDone /\ FullyDefinedGrid
    /\ \E x \in DOMAIN is_defined :
           /\ ~is_defined[x]
           /\ Cardinality({defining_indices[x][e] : e \in 1 .. 4}) = 4
           /\ distance["ne"][x] # distance["nw"][x]
           /\ \A e \in 1 .. 4 : defining_weits[x][e] # RInt(0)

====
